---- MODULE Spec2Model ----
(***************************************************************************)
(* The command extraction and recovery pipeline of the assistant           *)
(* (ai-python/ai_assistant): process_text and the parser, the backfiller   *)
(* and the validator it drives, against an LLM-sending capability and a    *)
(* bridge-dispatch capability whose answers are chosen by the environment. *)
(***************************************************************************)
EXTENDS Integers, Sequences, FiniteSets, TLC

VARIABLES
    pc,                 \* position inside process_text
    text,               \* the text argument of process_text
    sender,             \* which sender process_text works with
    prompts_module,     \* the functions the module ai_assistant.prompts defines
    extracted,          \* what extractor.extract(text) returned (line 32)
    result,             \* the ValidationResult `result` of line 32
    idx,                \* number of result.commands the loop of line 45 has finished
    responses,          \* the list `responses` of line 44
    contributions,      \* the values `response` of line 46, one per finished command
    frames,             \* the running calls of _attempt_recovery, innermost last
    fallback,           \* the Command built by _build_fallback_answer
    returned,           \* what process_text returned, or the exception it raised
    uuids,              \* number of uuid4() values generated so far
    llm_log,            \* the calls made on the sender, in order
    bridge_log,         \* the calls made on bridge.send_command, in order
    payload,            \* a JSON value given to the backfiller or the validator alone
    backfilled,         \* what _ensure_required_fields did with payload
    validation,         \* what validate_command did with payload, or with backfilled
    raw_response,       \* a completion given to the response parser alone
    parsed,             \* what parse_json_safely did with raw_response
    http_command,       \* the Command given to HttpBridge.send_command
    http_candidates,    \* the candidates the loop of bridge.py line 37 has yet to try
    http_log,           \* the requests HttpBridge performed, in order
    http_returned       \* what HttpBridge.send_command returned, or the exception

vars == <<pc, text, sender, prompts_module, extracted, result, idx, responses,
          contributions, frames, fallback, returned, uuids, llm_log, bridge_log,
          payload, backfilled, validation, raw_response,
          parsed, http_command, http_candidates, http_log, http_returned>>

\* the state of HttpBridge.send_command
http_vars == <<http_command, http_candidates, http_log, http_returned>>

\* the state of process_text and of the extraction, its position apart
process_vars == <<text, sender, prompts_module, extracted, result, idx, responses,
                  contributions, frames, fallback, returned, uuids, llm_log, bridge_log,
                  payload, backfilled, validation, raw_response, parsed>>

(***************************************************************************)
(* Bounds of the model                                                     *)
(***************************************************************************)
MaxCmds == 2
MaxChunks == 3

(***************************************************************************)
(* JSON values as json.loads produces them.  A Python str is a sequence of *)
(* tokens, so that prefixes, suffixes and substrings can be examined.      *)
(***************************************************************************)
JNull == [t |-> "null"]
JBool(b) == [t |-> "bool", b |-> b]
JNum(n) == [t |-> "num", n |-> n]
JStr(s) == [t |-> "str", s |-> s]
JList(l) == [t |-> "list", l |-> l]
JObj(o) == [t |-> "obj", o |-> o]

Str(tok) == JStr(<<tok>>)
EmptyDict == <<>>

IsDict(v) == v.t = "obj"
IsList(v) == v.t = "list"
IsStr(v) == v.t = "str"

\* bool(v) for a JSON value
Truthy(v) ==
    CASE v.t = "null" -> FALSE
      [] v.t = "bool" -> v.b
      [] v.t = "num" -> v.n # 0
      [] v.t = "str" -> v.s # <<>>
      [] v.t = "list" -> v.l # <<>>
      [] v.t = "obj" -> DOMAIN v.o # {}

\* lists and dicts are unhashable: using one as a dict key raises TypeError
Hashable(v) == v.t \notin {"list", "obj"}

\* dict.get(key) with the default None
Get(o, key) == IF key \in DOMAIN o THEN o[key] ELSE JNull

\* Body of a value computed once: a local variable of the code
With(value, Body(_)) == CHOOSE out \in {Body(v) : v \in {value}} : TRUE

\* the outcome of a call: a value, or an exception
Ok(v) == [raised |-> FALSE, value |-> v]
Raise(e) == [raised |-> TRUE, exc |-> e]

(***************************************************************************)
(* schemas.py                                                              *)
(***************************************************************************)
ALLOWED_ACTIONS ==
    [open_app |-> <<"application">>,
     search_files |-> <<"query">>,
     adjust_setting |-> <<"setting", "value">>,
     system_status |-> <<>>,
     answer_question |-> <<"answer">>]

\* `action in ALLOWED_ACTIONS` for a hashable action
ActionAllowed(action) ==
    IsStr(action) /\ Len(action.s) = 1 /\ action.s[1] \in DOMAIN ALLOWED_ACTIONS

\* ALLOWED_ACTIONS.get(action, []) for a hashable action
RequiredFields(action) ==
    IF ActionAllowed(action) THEN ALLOWED_ACTIONS[action.s[1]] ELSE <<>>

Command(action, params, uuid, timestamp) ==
    [action |-> action, params |-> params, uuid |-> uuid, timestamp |-> timestamp]

to_json(command) ==
    JObj([action |-> command.action, params |-> JObj(command.params),
          uuid |-> command.uuid, timestamp |-> command.timestamp])

\* a ValidationIssue: the field path prefix, "[index]" when idx >= 0, ".sub" when sub # ""
ValidationIssue(base, index, sub, message) ==
    [base |-> base, idx |-> index, sub |-> sub, message |-> message]

NoIndex == 0 - 1

ValidationResult(is_valid, issues, commands) ==
    [is_valid |-> is_valid, issues |-> issues, commands |-> commands]

\* tokens of the strings datetime.fromisoformat accepts
IsoDates == {"2025-01-01", "2024-01-01", "utcnow-date"}
IsoTimes == {"00:00:00", "utcnow-time"}
IsoOffsets == {"+00:00"}

\* datetime.fromisoformat(s) returns (TRUE) or raises ValueError (FALSE)
fromisoformat(s) ==
    \/ Len(s) = 1 /\ s[1] \in IsoDates
    \/ Len(s) = 3 /\ s[1] \in IsoDates /\ s[2] = "T" /\ s[3] \in IsoTimes
    \/ Len(s) = 4 /\ s[1] \in IsoDates /\ s[2] = "T" /\ s[3] \in IsoTimes
                  /\ s[4] \in IsoOffsets

\* s.endswith(tok), s.startswith(tok), tok in s, s.replace(old, new)
EndsWith(s, tok) == s # <<>> /\ s[Len(s)] = tok
StartsWith(s, tok) == s # <<>> /\ s[1] = tok
Contains(s, tok) == \E i \in 1..Len(s) : s[i] = tok
Replace(s, old, new) == [i \in 1..Len(s) |-> IF s[i] = old THEN new ELSE s[i]]

\* line 79 with the indexed prefix whatever the number of raw commands
IssueAt_AlwaysIndexed(count, index, sub, message) ==
    ValidationIssue("commands", index, sub, message)

\* the field path prefix of raw command number index (zero-based) among count
IssueAt(count, index, sub, message) ==
    IF count > 1 THEN ValidationIssue("commands", index, sub, message)
    ELSE ValidationIssue("command", NoIndex, sub, message)

\* the issues of lines 135-137: one per required field missing from params
MissingFieldIssues(fields, params, count, index) ==
    SelectSeq([i \in 1..Len(fields) |->
                  IssueAt(count, index, fields[i], "Missing required field")],
              LAMBDA issue : issue.sub \notin DOMAIN params)

\* lines 142-143 without the else of lines 144-151
TimestampIssues_NotParsed(timestamp, count, index) ==
    IF ~Truthy(timestamp) \/ ~IsStr(timestamp)
    THEN <<IssueAt(count, index, "timestamp", "Timestamp is required")>>
    ELSE <<>>

\* the issues of lines 142-151 for the timestamp
TimestampIssues(timestamp, count, index) ==
    IF ~Truthy(timestamp) \/ ~IsStr(timestamp)
    THEN <<IssueAt(count, index, "timestamp", "Timestamp is required")>>
    ELSE LET normalized_timestamp ==
                 IF EndsWith(timestamp.s, "Z")
                 THEN Replace(timestamp.s, "Z", "+00:00") ELSE timestamp.s
         IN IF fromisoformat(normalized_timestamp) THEN <<>>
            ELSE <<IssueAt(count, index, "timestamp", "Timestamp must be ISO 8601")>>

\* _validate_single_command: Ok([issues, has_command, command]) or TypeError when
\* the action is unhashable (line 128)
_validate_single_command(data, count, index) ==
    LET action == Get(data, "action")
        raw_params == IF "params" \in DOMAIN data THEN data["params"] ELSE JObj(EmptyDict)
        uuid == Get(data, "uuid")
        timestamp == Get(data, "timestamp")
        params == IF IsDict(raw_params) THEN raw_params.o ELSE EmptyDict
        issues ==
            (IF ~ActionAllowed(action)
             THEN <<IssueAt(count, index, "action", "Unsupported or missing action")>>
             ELSE <<>>)
            \o (IF ~IsDict(raw_params)
                THEN <<IssueAt(count, index, "params", "Params must be an object")>>
                ELSE <<>>)
            \o MissingFieldIssues(RequiredFields(action), params, count, index)
            \o (IF ~Truthy(uuid) \/ ~IsStr(uuid)
                THEN <<IssueAt(count, index, "uuid", "UUID is required")>>
                ELSE <<>>)
            \o TimestampIssues(timestamp, count, index)
    IN IF ~Hashable(action) THEN Raise("TypeError")
       ELSE Ok([issues |-> issues,
                has_command |-> issues = <<>>,
                command |-> Command(action, params, uuid, timestamp)])

\* _normalize_command_payload without line 112: an object without `commands` is no
\* command list
_normalize_command_payload_NoSingle(data) ==
    IF IsList(data) THEN [raw_commands |-> data.l, issues |-> <<>>]
    ELSE IF IsDict(data) /\ "commands" \in DOMAIN data.o
    THEN IF IsList(data.o["commands"])
         THEN [raw_commands |-> data.o["commands"].l, issues |-> <<>>]
         ELSE [raw_commands |-> <<data.o["commands"]>>,
               issues |-> <<ValidationIssue("commands", NoIndex, "",
                                            "Commands must be a list")>>]
    ELSE [raw_commands |-> <<>>,
          issues |-> <<ValidationIssue("root", NoIndex, "",
                                       "Payload must be an object or list")>>]

\* _normalize_command_payload: [raw_commands, issues]
_normalize_command_payload(data) ==
    IF IsList(data) THEN [raw_commands |-> data.l, issues |-> <<>>]
    ELSE IF IsDict(data)
    THEN IF "commands" \in DOMAIN data.o
         THEN IF IsList(data.o["commands"])
              THEN [raw_commands |-> data.o["commands"].l, issues |-> <<>>]
              ELSE [raw_commands |-> <<data.o["commands"]>>,
                    issues |-> <<ValidationIssue("commands", NoIndex, "",
                                                 "Commands must be a list")>>]
         ELSE [raw_commands |-> <<data>>, issues |-> <<>>]
    ELSE [raw_commands |-> <<>>,
          issues |-> <<ValidationIssue("root", NoIndex, "",
                                       "Payload must be an object or list")>>]

\* the loop of lines 78-89 from raw command number i (one-based) on, given the
\* issues and commands collected so far
RECURSIVE ValidateFrom(_, _, _, _)
ValidateFrom(raw_commands, i, issues, commands) ==
    IF i > Len(raw_commands) THEN Ok([issues |-> issues, commands |-> commands])
    ELSE LET raw_command == raw_commands[i]
             count == Len(raw_commands)
         IN IF ~IsDict(raw_command)
            THEN ValidateFrom(raw_commands, i + 1,
                     Append(issues, IssueAt(count, i - 1, "",
                                            "Each command must be an object")),
                     commands)
            ELSE LET one == _validate_single_command(raw_command.o, count, i - 1)
                 IN IF one.raised THEN one
                    ELSE ValidateFrom(raw_commands, i + 1,
                             issues \o one.value.issues,
                             IF one.value.has_command
                             THEN Append(commands, one.value.command)
                             ELSE commands)

\* validate_command: Ok(ValidationResult) or the TypeError of line 128
validate_command(data) ==
    LET normalized == _normalize_command_payload(data)
        raw_commands == normalized.raw_commands
        issues == normalized.issues
                  \o (IF raw_commands = <<>>
                      THEN <<ValidationIssue("commands", NoIndex, "",
                                             "No commands provided")>>
                      ELSE <<>>)
        looped == ValidateFrom(raw_commands, 1, issues, <<>>)
    IN IF looped.raised THEN looped
       ELSE Ok(ValidationResult(looped.value.commands # <<>> /\ looped.value.issues = <<>>,
                                looped.value.issues, looped.value.commands))

(***************************************************************************)
(* nlu.py: the backfiller                                                  *)
(***************************************************************************)
Digits == <<"0", "1", "2", "3", "4", "5", "6", "7", "8", "9">>

\* str(uuid4()): the n-th identifier generated in this run
uuid4(n) == JStr(<<"uuid4", Digits[(n \div 10) + 1], Digits[(n % 10) + 1]>>)

\* datetime.utcnow().isoformat() + "Z"
utcnow_isoformat_Z == JStr(<<"utcnow-date", "T", "utcnow-time", "Z">>)

\* the loop of lines 44-46 without the test `field not in params` of line 45
RECURSIVE FoldFields_Overwrite(_, _, _, _)
FoldFields_Overwrite(fields, i, params, command) ==
    IF i > Len(fields) THEN params
    ELSE FoldFields_Overwrite(fields, i + 1,
             IF fields[i] \in DOMAIN command
             THEN (fields[i] :> command[fields[i]]) @@ params
             ELSE params,
             command)

\* the loop of lines 44-46 over the required fields from number i on
RECURSIVE FoldFields(_, _, _, _)
FoldFields(fields, i, params, command) ==
    IF i > Len(fields) THEN params
    ELSE FoldFields(fields, i + 1,
             IF fields[i] \notin DOMAIN params /\ fields[i] \in DOMAIN command
             THEN (fields[i] :> command[fields[i]]) @@ params
             ELSE params,
             command)

\* _enrich_command with the timestamp of line 62 whatever line 57 found
_enrich_command_FreshTimestamp(command, n) ==
    LET action == Get(command, "action")
        raw_params == Get(command, "params")
        params0 == IF IsDict(raw_params) THEN raw_params.o ELSE EmptyDict
        params == FoldFields(RequiredFields(action), 1, params0, command)
        uuid_value == Get(command, "uuid")
        new_uuid == ~Truthy(uuid_value) \/ ~IsStr(uuid_value)
                    \/ StartsWith(uuid_value.s, "<")
    IN IF ~Hashable(action) THEN Raise("TypeError")
       ELSE Ok([value |-> JObj([action |-> action,
                                params |-> JObj(params),
                                uuid |-> IF new_uuid THEN uuid4(n + 1) ELSE uuid_value,
                                timestamp |-> utcnow_isoformat_Z]),
                uuids |-> IF new_uuid THEN n + 1 ELSE n])

\* _enrich_command with n identifiers generated before it:
\* Ok([value, uuids]) or TypeError when the action is unhashable (line 44)
_enrich_command(command, n) ==
    LET action == Get(command, "action")
        raw_params == Get(command, "params")
        params0 == IF IsDict(raw_params) THEN raw_params.o ELSE EmptyDict
        params == FoldFields(RequiredFields(action), 1, params0, command)
        uuid_value == Get(command, "uuid")
        new_uuid == ~Truthy(uuid_value) \/ ~IsStr(uuid_value)
                    \/ StartsWith(uuid_value.s, "<")
        timestamp_value == Get(command, "timestamp")
        new_timestamp == ~Truthy(timestamp_value) \/ ~IsStr(timestamp_value)
                         \/ Contains(timestamp_value.s, "2024-01-01")
    IN IF ~Hashable(action) THEN Raise("TypeError")
       ELSE Ok([value |-> JObj([action |-> action,
                                params |-> JObj(params),
                                uuid |-> IF new_uuid THEN uuid4(n + 1) ELSE uuid_value,
                                timestamp |-> IF new_timestamp THEN utcnow_isoformat_Z
                                              ELSE timestamp_value]),
                uuids |-> IF new_uuid THEN n + 1 ELSE n])

\* _enrich_collection from item number i on, given the items enriched so far
RECURSIVE EnrichFrom(_, _, _, _)
EnrichFrom(commands, i, done, n) ==
    IF i > Len(commands) THEN Ok([value |-> done, uuids |-> n])
    ELSE IF ~IsDict(commands[i])
    THEN EnrichFrom(commands, i + 1, Append(done, commands[i]), n)
    ELSE LET one == _enrich_command(commands[i].o, n)
         IN IF one.raised THEN one
            ELSE EnrichFrom(commands, i + 1, Append(done, one.value.value),
                            one.value.uuids)

\* IntentExtractor._ensure_required_fields: Ok([value, uuids]) or TypeError
_ensure_required_fields(data, n) ==
    IF IsList(data)
    THEN LET all == EnrichFrom(data.l, 1, <<>>, n)
         IN IF all.raised THEN all
            ELSE Ok([value |-> JList(all.value.value), uuids |-> all.value.uuids])
    ELSE IF IsDict(data)
    THEN IF "commands" \in DOMAIN data.o /\ IsList(data.o["commands"])
         THEN LET all == EnrichFrom(data.o["commands"].l, 1, <<>>, n)
              IN IF all.raised THEN all
                 ELSE Ok([value |-> JObj(("commands" :> JList(all.value.value)) @@ data.o),
                          uuids |-> all.value.uuids])
         ELSE _enrich_command(data.o, n)
    ELSE Ok([value |-> data, uuids |-> n])

(***************************************************************************)
(* llm.py: the response parser.  A text is a sequence of chunks: a run of  *)
(* whitespace, a run of prose (no brace, bracket or backquote), a code     *)
(* fence, the language tag json, or the serialisation of one JSON value.   *)
(***************************************************************************)
Ws == [k |-> "ws"]
Prose == [k |-> "prose"]
Fence == [k |-> "fence"]
Tag == [k |-> "tag"]
J(v) == [k |-> "json", v |-> v]

IsJson(chunk) == chunk.k = "json"

\* text.strip()
RECURSIVE LStrip(_)
LStrip(txt) == IF txt # <<>> /\ Head(txt) = Ws THEN LStrip(Tail(txt)) ELSE txt
RECURSIVE RStrip(_)
RStrip(txt) ==
    IF txt # <<>> /\ txt[Len(txt)] = Ws THEN RStrip(SubSeq(txt, 1, Len(txt) - 1)) ELSE txt
Strip(txt) == RStrip(LStrip(txt))

\* whether the serialisation of v holds a character "{" (open = "obj") or "[" ("list")
RECURSIVE HasOpen(_, _)
HasOpen(v, open) ==
    \/ v.t = open
    \/ v.t = "list" /\ \E i \in 1..Len(v.l) : HasOpen(v.l[i], open)
    \/ v.t = "obj" /\ \E key \in DOMAIN v.o : HasOpen(v.o[key], open)

\* json.loads of the serialisation of v cut from its first "{" to its last "}"
\* (open = "obj"), or from its first "[" to its last "]" (open = "list")
RECURSIVE InnerSpan(_, _)
InnerSpan(v, open) ==
    IF v.t = open THEN Ok(v)
    ELSE IF v.t = "list"
    THEN LET at == {i \in 1..Len(v.l) : HasOpen(v.l[i], open)}
         IN IF Cardinality(at) = 1 THEN InnerSpan(v.l[CHOOSE i \in at : TRUE], open)
            ELSE Raise("JSONDecodeError")
    ELSE IF v.t = "obj"
    THEN LET at == {key \in DOMAIN v.o : HasOpen(v.o[key], open)}
         IN IF Cardinality(at) = 1 THEN InnerSpan(v.o[CHOOSE key \in at : TRUE], open)
            ELSE Raise("JSONDecodeError")
    ELSE Raise("JSONDecodeError")

\* json.loads(candidate) for a candidate that is a run of whole chunks
_attempt_parse(candidate) ==
    IF Len(candidate) = 1 /\ IsJson(candidate[1]) THEN Ok(candidate[1].v)
    ELSE Raise("JSONDecodeError")

\* the greedy patterns of line 76: from the first opening character of the text to
\* its last closing character; <<>> when the text has none
GreedyCandidate(txt, open) ==
    LET at == {i \in 1..Len(txt) : IsJson(txt[i]) /\ HasOpen(txt[i].v, open)}
    IN IF at = {} THEN <<>>
       ELSE LET first == CHOOSE i \in at : \A j \in at : i <= j
                last == CHOOSE i \in at : \A j \in at : j <= i
            IN IF first = last THEN <<InnerSpan(txt[first].v, open)>>
               ELSE <<Raise("JSONDecodeError")>>

\* whether only whitespace separates chunk number m from a fence
ClosedAfter(txt, m) ==
    \E f \in (m + 1)..Len(txt) :
        txt[f] = Fence /\ \A i \in (m + 1)..(f - 1) : txt[i] = Ws

\* the match of the fenced pattern of line 72 that starts at fence number p:
\* <<>> when there is none, else the parse of group 1
FencedAt(txt, p) ==
    LET afterTag == IF p < Len(txt) /\ txt[p + 1] = Tag THEN p + 2 ELSE p + 1
        body == {j \in afterTag..Len(txt) :
                    /\ IsJson(txt[j]) /\ txt[j].v.t \in {"obj", "list"}
                    /\ \A i \in afterTag..(j - 1) : txt[i] = Ws}
    IN IF body = {} THEN <<>>
       ELSE LET j == CHOOSE i \in body : TRUE
                ends == {m \in j..Len(txt) :
                            /\ IsJson(txt[m]) /\ txt[m].v.t = txt[j].v.t
                            /\ ClosedAfter(txt, m)}
            IN IF ends = {} THEN <<>>
               ELSE LET m == CHOOSE i \in ends : \A n \in ends : i <= n
                    IN <<_attempt_parse(SubSeq(txt, j, m))>>

\* re.search of the fenced pattern: the leftmost match
FencedCandidate(txt) ==
    LET at == {p \in 1..Len(txt) : txt[p] = Fence /\ FencedAt(txt, p) # <<>>}
    IN IF at = {} THEN <<>>
       ELSE FencedAt(txt, CHOOSE p \in at : \A q \in at : p <= q)

\* _extract_json_candidates with the array pattern first and the fenced block last
_extract_json_candidates_Reversed(txt) ==
    GreedyCandidate(txt, "list") \o GreedyCandidate(txt, "obj") \o FencedCandidate(txt)

\* _extract_json_candidates, each candidate with the outcome of parsing it
_extract_json_candidates(txt) ==
    FencedCandidate(txt) \o GreedyCandidate(txt, "obj") \o GreedyCandidate(txt, "list")

\* parse_json_safely without lines 42-43
parse_json_safely_NoEmptyCheck(txt) ==
    LET cleaned == Strip(txt)
        direct == _attempt_parse(cleaned)
        candidates == SelectSeq(_extract_json_candidates(cleaned),
                                LAMBDA c : ~c.raised)
    IN IF ~direct.raised THEN direct
       ELSE IF candidates # <<>> THEN candidates[1]
       ELSE Raise("ValueError: LLM did not return valid JSON")

\* parse_json_safely: Ok(value) or ValueError
parse_json_safely(txt) ==
    LET cleaned == Strip(txt)
        direct == _attempt_parse(cleaned)
        candidates == SelectSeq(_extract_json_candidates(cleaned),
                                LAMBDA c : ~c.raised)
    IN IF cleaned = <<>> THEN Raise("ValueError: LLM returned an empty response")
       ELSE IF ~direct.raised THEN direct
       ELSE IF candidates # <<>> THEN candidates[1]
       ELSE Raise("ValueError: LLM did not return valid JSON")

(***************************************************************************)
(* The environment: the texts given to process_text, the completions the   *)
(* LLM backend returns and the responses of the bridge.                    *)
(***************************************************************************)
MaxErrors == 2

Texts ==
    {<<"otkroj", "bloknot">>,
     <<"i", "otkroj", "bloknot">>,
     <<"otkroj", "telegram", "I", "kalkulyator">>}

Apps == <<"notepad", "calculator", "telegram", "chrome", "paint", "explorer">>

\* a command as the prompt asks the LLM to write it: no uuid, no timestamp
RawCommand(app) ==
    JObj([action |-> Str("open_app"), params |-> JObj([application |-> Str(app)])])

\* a command the LLM wrote with a uuid and a timestamp of its own
DatedCommand(app, timestamp) ==
    JObj([action |-> Str("open_app"), params |-> JObj([application |-> Str(app)]),
          uuid |-> JStr(<<"llm", app>>), timestamp |-> timestamp])

Plan(n) == JList([i \in 1..n |-> RawCommand(Apps[i])])

\* the completions that answer a prompt built by hand (complete_custom)
CustomReplies ==
    {<<J(RawCommand("unknown"))>>}
    \cup {<<J(Plan(n))>> : n \in 2..MaxCmds}
    \cup {<<J(JList(<<RawCommand("paint"), JObj([action |-> Str("answer_question")])>>))>>,
          <<J(JObj([action |-> Str("answer_question")]))>>,
          <<J(JObj([action |-> JList(<<>>)]))>>,
          <<Prose>>}

\* the completions that answer the first prompt (send)
Replies ==
    CustomReplies
    \cup {<<J(JNum(42))>>,
          <<>>,
          <<Prose, Ws, Fence, Tag, Ws, J(RawCommand("chrome")), Ws, Fence>>,
          <<J(JList(<<DatedCommand("explorer", Str("yesterday")),
                      DatedCommand("chrome",
                                   JStr(<<"2025-01-01", "T", "00:00:00", "Z">>))>>))>>}

\* backend.complete as PromptSender wraps it: the completion, or RuntimeError
Completions == {Ok(r) : r \in Replies} \cup {Raise("RuntimeError")}
CustomCompletions == {Ok(r) : r \in CustomReplies} \cup {Raise("RuntimeError")}

AnswerTexts == {JStr(<<"gotov otvet">>)}

None == JNull

\* the responses the bridge may give to a command: nothing, or a dict; each dict
\* names the command it answers, as each response is an object of its own
\* the response of the service to a command it carried out: the handler of each
\* application has its own format, with the error field null, empty or left out
Succeeded(command) ==
    LET application == Get(command.params, "application")
    IN IF application = Str("calculator")
       THEN JObj([status |-> Str("done"), error |-> JStr(<<>>), request |-> command.uuid])
       ELSE IF application = Str("chrome")
       THEN JObj([status |-> Str("ok"), result |-> to_json(command),
                  request |-> command.uuid])
       ELSE JObj([status |-> Str("ok"), result |-> to_json(command), error |-> JNull,
                  request |-> command.uuid])

\* the response of the service to a command it could not carry out: a status of
\* error, or for some handlers another status with a non-empty error field
Refused(command) ==
    IF Get(command.params, "application") \in {Str("calculator"), Str("paint")}
    THEN JObj([status |-> Str("ok"), result |-> JNull, error |-> Str("partial failure"),
               request |-> command.uuid])
    ELSE JObj([status |-> Str("error"), result |-> JNull,
               error |-> Str("Application not found"), request |-> command.uuid])

BridgeResponses(command) == {None, Succeeded(command), Refused(command)}

(***************************************************************************)
(* prompts.py                                                              *)
(***************************************************************************)
\* the functions the module defines
PromptsAttributes ==
    {"_candidate_registry_paths", "_extract_application_hints",
     "load_available_applications", "build_prompt"}

\* the functions pipeline.py and llm.py look up in the module
PromptBuilders ==
    {"build_multistep_prompt", "build_error_resolution_prompt", "build_answer_prompt"}

\* prompts.<name>(args): the prompt, or AttributeError when the module has no such
\* function
CallPrompts(name, args) ==
    IF name \in prompts_module THEN Ok([builder |-> name, args |-> args])
    ELSE Raise("AttributeError")

(***************************************************************************)
(* nlu.py, pipeline.py                                                     *)
(***************************************************************************)
\* lines 25-27 of extract, 111-112 of _expand_complex_request and 188-189 of
\* _attempt_recovery: parse, backfill, validate.
\* Ok([result, uuids]) or the exception raised.
ParseBackfillValidate(raw, n) ==
    With(parse_json_safely(raw), LAMBDA data :
        IF data.raised THEN data
        ELSE With(_ensure_required_fields(data.value, n), LAMBDA enriched :
                 IF enriched.raised THEN enriched
                 ELSE With(validate_command(enriched.value.value), LAMBDA validated :
                          IF validated.raised THEN validated
                          ELSE Ok([result |-> validated.value,
                                   uuids |-> enriched.value.uuids]))))

Lower(tok) == IF tok = "I" THEN "i" ELSE tok

\* line 135 returning True for every text
_looks_multi_action_Always(txt) == TRUE

\* _looks_multi_action: a text is its words, single spaces between them; the
\* Russian words of the source are written in Latin letters
_looks_multi_action(txt) ==
    LET lowered == [i \in 1..Len(txt) |-> Lower(txt[i])]
    IN \/ \E i \in 2..(Len(lowered) - 1) : lowered[i] = "i"
       \/ \E i \in 1..Len(lowered) :
              lowered[i] \in {"zatem", "potom", "posle", "snachala", "dalee", ","}

\* _is_error_response without lines 159-160: only a structured response is an error
_is_error_response_NotNone(response) ==
    IF IsDict(response)
    THEN LET status == Get(response.o, "status")
             error == Get(response.o, "error")
         IN status = Str("error") \/ Truthy(error)
    ELSE FALSE

_is_error_response(response) ==
    IF response = None THEN TRUE
    ELSE IF IsDict(response)
    THEN LET status == Get(response.o, "status")
             error == Get(response.o, "error")
         IN status = Str("error") \/ Truthy(error)
    ELSE FALSE

ApologyText ==
    JStr(<<"Ne udalos raspoznat komandu i poluchit otvet ot modeli. ",
           "Pozhalujsta, povtorite zapros.">>)

\* lines 59-62 returning the list whatever its length
Aggregate_AlwaysList(collected) ==
    IF collected = <<>> THEN None ELSE JList(collected)

\* lines 59-62: what process_text returns for the collected responses
Aggregate(collected) ==
    IF collected = <<>> THEN None
    ELSE IF Len(collected) > 1 THEN JList(collected) ELSE collected[1]

\* lines 52-57 inserting at the front of the list
Extend_AtFront(collected, response) ==
    IF response = None THEN collected
    ELSE IF IsList(response) THEN response.l \o collected
    ELSE <<response>> \o collected

\* lines 52-57: the list `responses` after one more return of _send_with_recovery
Extend(collected, response) ==
    IF response = None THEN collected
    ELSE IF IsList(response) THEN collected \o response.l
    ELSE Append(collected, response)

NotReturned == [running |-> TRUE]
NotCalled == [called |-> FALSE]
NoResult == ValidationResult(FALSE, <<>>, <<>>)
NoCommand == Command(JNull, EmptyDict, JNull, JNull)

ErrorsSoFar == Cardinality({i \in 1..Len(bridge_log) :
                               _is_error_response(bridge_log[i].response)})

\* the responses the bridge gives within the fault budget of the model
Responses(command) ==
    {r \in BridgeResponses(command) : _is_error_response(r) => ErrorsSoFar < MaxErrors}

\* line 202 without allow_retry=False
AllowRetry_Always(depth) == TRUE

\* allow_retry of _send_with_recovery when depth calls of _attempt_recovery are
\* running: the default of line 144, False at line 202
AllowRetry(depth) == depth = 0

\* line 34 testing result.is_valid instead of result.commands
TakesFallback_WhenNotValid(res) == ~res.is_valid

\* line 34: whether process_text takes the fallback answer path
TakesFallback(res) == res.commands = <<>>

\* line 53 leaving the loop instead of going on with it
LoopContinues_BreakOnNone(done, count, response) == done < count /\ response # None

\* line 45: whether the loop takes another command after done of count, the last
\* return of _send_with_recovery being response
LoopContinues(done, count, response) == done < count

\* line 207 without the `or error_response`
RecoveryReturn_NoError(collected, error) ==
    IF collected # <<>> THEN JList(collected) ELSE None

\* line 207
RecoveryReturn(collected, error) ==
    IF collected # <<>> THEN JList(collected) ELSE error

\* the loop of line 200 without lines 204-205
RecoveryCollect_Nothing(collected, response) == collected

\* lines 204-205
RecoveryCollect(collected, response) ==
    IF response # None THEN Append(collected, response) ELSE collected

\* lines 82-97 without the try of line 82
_build_fallback_answer_NoTry(outcome, n) ==
    IF outcome.raised THEN outcome
    ELSE Ok(Command(Str("answer_question"), [answer |-> outcome.value],
                    uuid4(n + 1), utcnow_isoformat_Z))

\* lines 82-97 given the outcome of sender.answer and n identifiers generated
_build_fallback_answer(outcome, n) ==
    LET answer_text == IF outcome.raised THEN ApologyText ELSE outcome.value
    IN Ok(Command(Str("answer_question"), [answer |-> answer_text],
                  uuid4(n + 1), utcnow_isoformat_Z))

\* lines 117-121: the result _expand_complex_request returns once the plan validated
ChooseExpanded(original, expanded) ==
    IF Len(expanded.commands) < 2 THEN original ELSE expanded

\* lines 109-121 without the try of line 109
ExpansionOutcome_NoTry(original, got) ==
    IF got.raised THEN got ELSE Ok(ChooseExpanded(original, got.value.result))

\* lines 109-121: what _expand_complex_request does once the calls inside its try
\* gave got, an exception or a validation result
ExpansionOutcome(original, got) ==
    IF got.raised THEN Ok(original) ELSE Ok(ChooseExpanded(original, got.value.result))

\* sender.answer(text): PromptSender.answer builds its prompt outside its try; an
\* injected sender returns a text or raises
AnswerOutcomes ==
    IF sender = "PromptSender"
    THEN IF CallPrompts("build_answer_prompt", <<text>>).raised
         THEN {Raise("AttributeError")}
         ELSE {Ok(a) : a \in AnswerTexts} \cup {Raise("RuntimeError")}
    ELSE {Ok(a) : a \in AnswerTexts} \cup {Raise("RuntimeError")}

Frame(failed, error) ==
    [failed |-> failed, error_response |-> error, commands |-> <<>>, ridx |-> 0,
     responses |-> <<>>]

Pop(stack) == SubSeq(stack, 1, Len(stack) - 1)
Top(stack) == stack[Len(stack)]

\* the loop of line 200 ending one command early
RECURSIVE Unwind_OneShort(_, _)
Unwind_OneShort(stack, value) ==
    IF stack = <<>> THEN [frames |-> <<>>, top |-> TRUE, value |-> value]
    ELSE LET frame == Top(stack)
             collected == RecoveryCollect(frame.responses, value)
         IN IF frame.ridx + 2 < Len(frame.commands)
            THEN [frames |-> [stack EXCEPT ![Len(stack)] =
                                 [frame EXCEPT !.ridx = @ + 1, !.responses = collected]],
                  top |-> FALSE, value |-> None]
            ELSE Unwind_OneShort(Pop(stack),
                                 RecoveryReturn(collected, frame.error_response))

\* _send_with_recovery returns value to the loop that called it: the loop of line 200
\* of the innermost running _attempt_recovery, or the loop of line 45
RECURSIVE Unwind(_, _)
Unwind(stack, value) ==
    IF stack = <<>> THEN [frames |-> <<>>, top |-> TRUE, value |-> value]
    ELSE LET frame == Top(stack)
             collected == RecoveryCollect(frame.responses, value)
         IN IF frame.ridx + 1 < Len(frame.commands)
            THEN [frames |-> [stack EXCEPT ![Len(stack)] =
                                 [frame EXCEPT !.ridx = @ + 1, !.responses = collected]],
                  top |-> FALSE, value |-> None]
            ELSE Unwind(Pop(stack), RecoveryReturn(collected, frame.error_response))

\* an exception caught and logged, process_text going on to its fallback answer
Fails_Swallowed(e) ==
    /\ pc' = "fallback"
    /\ returned' = returned

\* process_text raises e
Fails(e) ==
    /\ pc' = "raised"
    /\ returned' = e

\* lines 34-45 once `result` is known
Proceeds(res) ==
    /\ result' = res
    /\ returned' = returned
    /\ pc' = IF TakesFallback(res) THEN "fallback" ELSE "dispatch"

\* lines 52-62: the loop of line 45 receives response for command number idx + 1
Collects(response) ==
    LET collected == Extend(responses, response)
    IN /\ responses' = collected
       /\ contributions' = Append(contributions, response)
       /\ idx' = idx + 1
       /\ IF LoopContinues(idx + 1, Len(result.commands), response)
          THEN pc' = "dispatch" /\ returned' = returned
          ELSE pc' = "done" /\ returned' = Ok(Aggregate(collected))

\* _send_with_recovery returns value with stack the calls of _attempt_recovery
\* still running
Returns(stack, value) ==
    \E unwound \in {Unwind(stack, value)} :
       /\ frames' = unwound.frames
       /\ IF unwound.top THEN Collects(unwound.value)
          ELSE pc' = "dispatch" /\ UNCHANGED <<idx, responses, contributions, returned>>

InitWith(attributes, senders, texts) ==
    /\ pc = "start"
    /\ text \in texts
    /\ sender \in senders
    /\ prompts_module = attributes
    /\ extracted = NoResult
    /\ result = NoResult
    /\ idx = 0
    /\ responses = <<>>
    /\ contributions = <<>>
    /\ frames = <<>>
    /\ fallback = NoCommand
    /\ returned = NotReturned
    /\ uuids = 0
    /\ llm_log = <<>>
    /\ bridge_log = <<>>
    /\ payload = None
    /\ backfilled = NotCalled
    /\ validation = NotCalled
    /\ raw_response = <<>>
    /\ parsed = NotCalled
    /\ http_command = NoCommand
    /\ http_candidates = <<>>
    /\ http_log = <<>>
    /\ http_returned = NotCalled

\* the repository as it is
Init == InitWith(PromptsAttributes, {"PromptSender", "injected"}, Texts)

\* the repository with the prompt builders its callers look up, given a text
\* without a compound marker and one with
InitBuilders ==
    InitWith(PromptsAttributes \cup PromptBuilders, {"PromptSender"},
             {t \in Texts : Len(t) > 2})

\* lines 30-32: extractor.extract(text), then _expand_complex_request up to its call
\* of the LLM
Extract ==
    /\ pc = "start"
    /\ \E completion \in Completions :
        /\ llm_log' = Append(llm_log, [op |-> "send", arg |-> text,
                                       outcome |-> completion, commands |-> <<>>])
        /\ IF completion.raised
           THEN Fails(completion) /\ UNCHANGED <<extracted, result, uuids>>
           ELSE \E got \in {ParseBackfillValidate(completion.value, uuids)} :
                   IF got.raised
                   THEN Fails(got) /\ UNCHANGED <<extracted, result, uuids>>
                   ELSE /\ uuids' = got.value.uuids
                        /\ extracted' = got.value.result
                        /\ IF Len(got.value.result.commands) # 1
                              \/ ~_looks_multi_action(text)
                           THEN Proceeds(got.value.result)
                           ELSE IF CallPrompts("build_multistep_prompt", <<text>>).raised
                           THEN \E out \in {ExpansionOutcome(got.value.result,
                                       CallPrompts("build_multistep_prompt", <<text>>))} :
                                   IF out.raised THEN Fails(out) /\ result' = result
                                   ELSE Proceeds(out.value)
                           ELSE /\ result' = got.value.result
                                /\ pc' = "expand"
                                /\ returned' = returned
    /\ UNCHANGED <<http_vars, raw_response, parsed, payload, backfilled, validation, text, sender, prompts_module, idx, responses, contributions, frames,
                   fallback, bridge_log>>

\* lines 110-121: the multi-step call of the LLM and what follows it
Expand ==
    /\ pc = "expand"
    /\ \E completion \in CustomCompletions :
        \E prompt \in {CallPrompts("build_multistep_prompt", <<text>>).value},
           got \in {IF completion.raised THEN completion
                    ELSE ParseBackfillValidate(completion.value, uuids)} :
           /\ llm_log' = Append(llm_log, [op |-> "complete_custom", arg |-> prompt,
                                          outcome |-> completion,
                                          commands |-> IF got.raised THEN <<>>
                                                       ELSE got.value.result.commands])
           /\ uuids' = IF got.raised THEN uuids ELSE got.value.uuids
           /\ \E out \in {ExpansionOutcome(result, got)} :
                 IF out.raised THEN Fails(out) /\ result' = result
                 ELSE Proceeds(out.value)
    /\ UNCHANGED <<http_vars, raw_response, parsed, payload, backfilled, validation, text, sender, prompts_module, extracted, idx, responses,
                   contributions, frames, fallback, bridge_log>>

\* line 37: _build_fallback_answer
FallbackAnswer ==
    /\ pc = "fallback"
    /\ \E outcome \in AnswerOutcomes :
        LET built == _build_fallback_answer(outcome, uuids)
        IN /\ llm_log' = Append(llm_log, [op |-> "answer", arg |-> text,
                                          outcome |-> outcome, commands |-> <<>>])
           /\ IF built.raised
              THEN Fails(built) /\ UNCHANGED <<fallback, uuids>>
              ELSE /\ fallback' = built.value
                   /\ uuids' = uuids + 1
                   /\ pc' = "fallback_send"
                   /\ returned' = returned
    /\ UNCHANGED <<http_vars, raw_response, parsed, payload, backfilled, validation, text, sender, prompts_module, extracted, result, idx, responses,
                   contributions, frames, bridge_log>>

\* line 38: the fallback command goes to the bridge and its response is returned
FallbackSend ==
    /\ pc = "fallback_send"
    /\ \E response \in Responses(fallback) :
        /\ bridge_log' = Append(bridge_log, [command |-> fallback, response |-> response,
                                             depth |-> 0, owner |-> 0])
        /\ returned' = Ok(response)
    /\ pc' = "done"
    /\ UNCHANGED <<http_vars, raw_response, parsed, payload, backfilled, validation, text, sender, prompts_module, extracted, result, idx, responses,
                   contributions, frames, fallback, uuids, llm_log>>

\* _send_with_recovery (lines 146-155), called by the loop of line 45 or by the loop
\* of line 200, and _attempt_recovery up to its call of the LLM (lines 183-187)
Dispatch ==
    /\ pc = "dispatch"
    /\ LET depth == Len(frames)
           command == IF depth = 0 THEN result.commands[idx + 1]
                      ELSE Top(frames).commands[Top(frames).ridx + 1]
       IN \E response \in Responses(command) :
           /\ bridge_log' = Append(bridge_log, [command |-> command,
                                                response |-> response,
                                                depth |-> depth, owner |-> idx + 1])
           /\ IF AllowRetry(depth) /\ _is_error_response(response)
              THEN IF CallPrompts("build_error_resolution_prompt",
                                  <<text, to_json(command),
                                    IF Truthy(response) THEN response
                                    ELSE JObj(EmptyDict)>>).raised
                   THEN Returns(frames, response)
                   ELSE /\ frames' = Append(frames, Frame(command, response))
                        /\ pc' = "recover"
                        /\ UNCHANGED <<idx, responses, contributions, returned>>
              ELSE Returns(frames, response)
    /\ UNCHANGED <<http_vars, raw_response, parsed, payload, backfilled, validation, text, sender, prompts_module, extracted, result, fallback, uuids,
                   llm_log>>

\* lines 187-196: the error-resolution call of the LLM and what follows it
Recover ==
    /\ pc = "recover"
    /\ \E completion \in CustomCompletions :
        LET frame == Top(frames)
            prompt == CallPrompts("build_error_resolution_prompt",
                                  <<text, to_json(frame.failed),
                                    IF Truthy(frame.error_response)
                                    THEN frame.error_response
                                    ELSE JObj(EmptyDict)>>).value
        IN \E got \in {IF completion.raised THEN completion
                       ELSE ParseBackfillValidate(completion.value, uuids)} :
           /\ llm_log' = Append(llm_log, [op |-> "complete_custom", arg |-> prompt,
                                          outcome |-> completion,
                                          commands |-> IF got.raised THEN <<>>
                                                       ELSE got.value.result.commands])
           /\ IF got.raised
              THEN Returns(Pop(frames), frame.error_response) /\ uuids' = uuids
              ELSE /\ uuids' = got.value.uuids
                   /\ IF got.value.result.commands = <<>>
                      THEN Returns(Pop(frames), frame.error_response)
                      ELSE /\ frames' = [frames EXCEPT ![Len(frames)].commands =
                                            got.value.result.commands]
                           /\ pc' = "dispatch"
                           /\ UNCHANGED <<idx, responses, contributions, returned>>
    /\ UNCHANGED <<http_vars, raw_response, parsed, payload, backfilled, validation, text, sender, prompts_module, extracted, result, fallback,
                   bridge_log>>

(***************************************************************************)
(* The backfiller and the validator alone, on JSON values of every shape   *)
(***************************************************************************)
\* a dict with the key, for each value, and the dict without it
Opt(key, values) == {EmptyDict} \cup {key :> v : v \in values}

ActionValues == {Str("open_app"), Str("adjust_setting"), Str("launch"), JList(<<>>)}
ParamsValues ==
    {JObj(EmptyDict), JObj([application |-> Str("notepad")]), Str("volume 50")}
UuidValues == {Str("123e4567"), JStr(<<"<", "uuid", ">">>), JStr(<<>>), JNum(7)}
TimestampValues ==
    {JStr(<<"2025-01-01", "T", "00:00:00", "Z">>),
     JStr(<<"2024-01-01", "T", "00:00:00", "Z">>),
     Str("yesterday"),
     JNum(0)}
FlatFields ==
    {EmptyDict,
     [application |-> Str("calculator")],
     [setting |-> Str("volume"), value |-> Str("50")],
     [setting |-> Str("volume")]}

\* raw command objects: every field absent or of one of several types
RawObjects ==
    {JObj(a @@ p @@ u @@ t @@ f) :
        a \in Opt("action", ActionValues), p \in Opt("params", ParamsValues),
        u \in Opt("uuid", UuidValues), t \in Opt("timestamp", TimestampValues),
        f \in FlatFields}

WellFormedItem(app) ==
    JObj([action |-> Str("open_app"), params |-> JObj([application |-> Str(app)]),
          uuid |-> JStr(<<"123e4567", app>>),
          timestamp |-> JStr(<<"2025-01-01", "T", "00:00:00", "Z">>)])

\* the items of the lists given to the validator: two commands that are well formed,
\* one without uuid, one with a timestamp that is no date, a number, and a command
\* whose action is a list
ListItems ==
    {WellFormedItem("notepad"),
     WellFormedItem("paint"),
     JObj([action |-> Str("open_app"), params |-> JObj([application |-> Str("chrome")]),
           timestamp |-> JStr(<<"2025-01-01", "T", "00:00:00", "Z">>)]),
     JObj([action |-> Str("system_status"), params |-> JObj(EmptyDict),
           uuid |-> Str("123e4567"), timestamp |-> Str("yesterday")]),
     JNum(1),
     JObj([action |-> JList(<<>>), uuid |-> Str("123e4567"),
           timestamp |-> JStr(<<"2025-01-01", "T", "00:00:00", "Z">>)])}

Lists == UNION {[1..n -> ListItems] : n \in 0..MaxCmds}

\* values of the `commands` key that are no list
NotLists ==
    {Str("open notepad"), JNull, WellFormedItem("notepad"),
     JObj([action |-> JList(<<>>)])}

Scalars == {JNum(42), JNull, JBool(TRUE), Str("open notepad")}

Payloads ==
    RawObjects
    \cup {JList(l) : l \in Lists}
    \cup {JObj([commands |-> JList(l)]) : l \in Lists}
    \cup {JObj([commands |-> v]) : v \in NotLists}
    \cup Scalars

\* the values whose serialisations stand in the completions given to the parser
ParserValues ==
    {RawCommand("notepad"),
     JObj([commands |-> JList(<<RawCommand("paint")>>)]),
     Plan(2),
     JNum(42),
     Str("gotovo")}

Chunks == {Ws, Prose, Fence, Tag} \cup {J(v) : v \in ParserValues}

\* a JSON object or array in a fenced code block, with or without the language tag,
\* optionally after prose
Wrapped(v) ==
    {before \o <<Fence>> \o tag \o open \o <<J(v)>> \o close \o <<Fence>> :
        before \in {<<>>, <<Prose>>, <<Prose, Ws>>}, tag \in {<<>>, <<Tag>>},
        open \in {<<>>, <<Ws>>}, close \in {<<>>, <<Ws>>}}

\* two numbers side by side are the serialisation of one number, not two chunks
Chunked(txt) ==
    \A i \in 1..(Len(txt) - 1) :
        ~(IsJson(txt[i]) /\ IsJson(txt[i + 1])
          /\ txt[i].v.t = "num" /\ txt[i + 1].v.t = "num")

\* the completions given to the parser: every text of at most MaxChunks chunks, and
\* the fenced blocks
ParserTexts ==
    {txt \in UNION {[1..n -> Chunks] : n \in 0..MaxChunks} : Chunked(txt)}
    \cup UNION {Wrapped(v) : v \in {w \in ParserValues : w.t \in {"obj", "list"}}}

\* the state before extraction with the payload and the completion given
InitExtraction(payloads, texts, at) ==
    /\ pc = at
    /\ payload \in payloads
    /\ raw_response \in texts
    /\ parsed = NotCalled
    /\ backfilled = NotCalled
    /\ validation = NotCalled
    /\ text = <<>>
    /\ sender = "PromptSender"
    /\ prompts_module = PromptsAttributes
    /\ extracted = NoResult
    /\ result = NoResult
    /\ idx = 0
    /\ responses = <<>>
    /\ contributions = <<>>
    /\ frames = <<>>
    /\ fallback = NoCommand
    /\ returned = NotReturned
    /\ uuids = 0
    /\ llm_log = <<>>
    /\ bridge_log = <<>>
    /\ http_command = NoCommand
    /\ http_candidates = <<>>
    /\ http_log = <<>>
    /\ http_returned = NotCalled

\* a JSON value is about to be backfilled or validated
InitPayload == InitExtraction(Payloads, {<<>>}, "payload")

\* a completion is about to be parsed
InitRaw == InitExtraction({None}, ParserTexts, "raw")

\* nlu.py line 25: parse_json_safely(raw_response); its value is what line 26 works on
Parse ==
    /\ pc = "raw"
    /\ \E done \in {parse_json_safely(raw_response)} :
          /\ parsed' = done
          /\ payload' = IF done.raised THEN payload ELSE done.value
          /\ pc' = IF done.raised THEN "unparsed" ELSE "payload"
    /\ UNCHANGED <<http_vars, raw_response, backfilled, validation, text, sender, prompts_module, extracted,
                   result, idx, responses, contributions, frames, fallback, returned,
                   uuids, llm_log, bridge_log>>

\* nlu.py line 26: IntentExtractor._ensure_required_fields(payload)
Backfill ==
    /\ pc = "payload"
    /\ \E done \in {_ensure_required_fields(payload, uuids)} :
          /\ backfilled' = done
          /\ uuids' = IF done.raised THEN uuids ELSE done.value.uuids
    /\ pc' = "backfilled"
    /\ UNCHANGED <<http_vars, raw_response, parsed, payload, validation, text, sender, prompts_module, extracted, result,
                   idx, responses, contributions, frames, fallback, returned, llm_log,
                   bridge_log>>

\* schemas.py line 61: validate_command(payload)
Validate ==
    /\ pc = "payload"
    /\ \E done \in {validate_command(payload)} : validation' = done
    /\ pc' = "validated"
    /\ UNCHANGED <<http_vars, raw_response, parsed, payload, backfilled, text, sender, prompts_module, extracted, result,
                   idx, responses, contributions, frames, fallback, returned, uuids,
                   llm_log, bridge_log>>

\* nlu.py line 27: validate_command(enriched) after the backfill of line 26
ValidateBackfilled ==
    /\ pc = "backfilled"
    /\ ~backfilled.raised
    /\ \E done \in {validate_command(backfilled.value.value)} : validation' = done
    /\ pc' = "extracted"
    /\ UNCHANGED <<http_vars, raw_response, parsed, payload, backfilled, text, sender, prompts_module, extracted, result,
                   idx, responses, contributions, frames, fallback, returned, uuids,
                   llm_log, bridge_log>>

NextPayload == Parse \/ Backfill \/ Validate \/ ValidateBackfilled

(***************************************************************************)
(* bridge.py: HttpBridge.send_command against a C# service whose answers   *)
(* are chosen by the environment                                           *)
(***************************************************************************)
\* lines 33-35 with the stripped name whatever the name starts with
Candidates_AlwaysStripped(application) ==
    IF IsStr(application) /\ application.s # <<>>
    THEN <<application, JStr(Tail(application.s))>>
    ELSE <<application>>

\* lines 33-35: the application names to try, in order; removeprefix drops the first
\* token of a name that starts with known_
Candidates(application) ==
    IF IsStr(application) /\ StartsWith(application.s, "known_")
    THEN <<application, JStr(Tail(application.s))>>
    ELSE <<application>>

\* what request.urlopen and the reading of the response may do: an exception, or a
\* status and a body; the body is the JSON value it serialises, or no JSON
HttpOk(command) ==
    JObj([status |-> Str("ok"), result |-> to_json(command), error |-> JNull])
UrlopenOutcomes(command) ==
    {Raise("RemoteDisconnected"), Raise("URLError"), Raise("OSError"),
     Raise("IncompleteRead"),
     Ok([status |-> 200, body |-> Ok(HttpOk(command))]),
     Ok([status |-> 200, body |-> Ok(JNull)]),
     Ok([status |-> 200, body |-> Raise("JSONDecodeError")]),
     Ok([status |-> 500, body |-> Ok(HttpOk(command))])}

\* _perform_request: Ok(value of json.loads), Ok(None) for the errors of line 100, or
\* the exception that leaves it
_perform_request(outcome) ==
    IF outcome.raised
    THEN IF outcome.exc \in {"RemoteDisconnected", "URLError", "OSError"}
         THEN Ok(None) ELSE outcome
    ELSE IF outcome.value.status # 200 THEN Raise("RuntimeError")
    ELSE outcome.value.body

\* lines 54-62: whether the loop returns after this request
Returns_response(performed) == ~performed.raised /\ performed.value # None

\* the commands given to HttpBridge.send_command
HttpApplications ==
    {Str("notepad"), JStr(<<"known_", "notepad">>), JStr(<<"known_">>),
     JStr(<<"un", "known_", "notepad">>), JNum(7)}
HttpCommands ==
    {Command(Str("open_app"), [application |-> a], Str("123e4567"),
             JStr(<<"2025-01-01", "T", "00:00:00", "Z">>)) : a \in HttpApplications}
    \cup {Command(Str("system_status"), EmptyDict, Str("123e4567"),
                  JStr(<<"2025-01-01", "T", "00:00:00", "Z">>))}

InitBridge ==
    /\ pc = "send_command"
    /\ http_command \in HttpCommands
    /\ http_candidates = <<>>
    /\ http_log = <<>>
    /\ http_returned = NotCalled
    /\ text = <<>>
    /\ sender = "PromptSender"
    /\ prompts_module = PromptsAttributes
    /\ extracted = NoResult
    /\ result = NoResult
    /\ idx = 0
    /\ responses = <<>>
    /\ contributions = <<>>
    /\ frames = <<>>
    /\ fallback = NoCommand
    /\ returned = NotReturned
    /\ uuids = 0
    /\ llm_log = <<>>
    /\ bridge_log = <<>>
    /\ payload = None
    /\ backfilled = NotCalled
    /\ validation = NotCalled
    /\ raw_response = <<>>
    /\ parsed = NotCalled

\* lines 28-35: the candidates are computed
BuildCandidates ==
    /\ pc = "send_command"
    /\ http_candidates' = Candidates(Get(http_command.params, "application"))
    /\ pc' = "request"
    /\ UNCHANGED <<http_command, http_log, http_returned, process_vars>>

\* lines 37-62: one turn of the loop, the request with the next candidate
Request ==
    /\ pc = "request"
    /\ http_candidates # <<>>
    /\ \E outcome \in UrlopenOutcomes(http_command) :
        \E performed \in {_perform_request(outcome)} :
           /\ http_log' = Append(http_log, [application |-> Head(http_candidates),
                                            outcome |-> outcome])
           /\ IF Returns_response(performed)
              THEN /\ http_returned' = Ok(performed.value)
                   /\ pc' = "sent"
                   /\ UNCHANGED http_candidates
              ELSE /\ http_candidates' = Tail(http_candidates)
                   /\ pc' = "request"
                   /\ UNCHANGED http_returned
    /\ UNCHANGED <<http_command, process_vars>>

\* line 64: every candidate was tried
GiveUp ==
    /\ pc = "request"
    /\ http_candidates = <<>>
    /\ http_returned' = Ok(None)
    /\ pc' = "sent"
    /\ UNCHANGED <<http_command, http_candidates, http_log, process_vars>>

NextBridge == BuildCandidates \/ Request \/ GiveUp

Next == Extract \/ FallbackAnswer \/ FallbackSend \/ Dispatch

NextBuilders == Extract \/ Expand \/ FallbackAnswer \/ FallbackSend \/ Dispatch \/ Recover

\* process_text in the repository as it is
Spec == Init /\ [][Next]_vars

\* process_text in the repository as it is, or with the prompt builders present
SpecBuilders == (Init \/ InitBuilders) /\ [][NextBuilders]_vars

\* the backfiller and the validator on every payload
SpecPayload == (InitPayload \/ InitRaw) /\ [][NextPayload]_vars

\* process_text with its prompt builders, each call it makes returning or throwing:
\* the step that is enabled is taken
SpecBuildersLive == (Init \/ InitBuilders) /\ [][NextBuilders]_vars /\ WF_vars(NextBuilders)

\* HttpBridge.send_command on every command and every behaviour of the service
SpecBridge == InitBridge /\ [][NextBridge]_vars

(***************************************************************************)
(* What the logs of a run tell                                             *)
(***************************************************************************)
Done == pc = "done"
Entries == 1..Len(bridge_log)
Calls == 1..Len(llm_log)

IsFallbackEntry(e) == e.owner = 0
IsOriginalEntry(e) == e.owner > 0 /\ e.depth = 0
IsCorrectedEntry(e) == e.depth > 0

IsRecoveryCall(c) ==
    c.op = "complete_custom" /\ c.arg.builder = "build_error_resolution_prompt"
IsMultistepCall(c) ==
    c.op = "complete_custom" /\ c.arg.builder = "build_multistep_prompt"

\* the failed command an error-resolution prompt was built from
FailedOf(c) == c.arg.args[2]

RecoveryCalls == {k \in Calls : IsRecoveryCall(llm_log[k])}
AnswerCalls == {k \in Calls : llm_log[k].op = "answer"}

\* the error-resolution calls made for validated command number i
RecoveryCallsFor(i) ==
    {k \in RecoveryCalls : FailedOf(llm_log[k]) = to_json(result.commands[i])}

\* the dispatches of the corrected commands of validated command number i, in order
CorrectedEntries(i) ==
    SelectSeq(bridge_log, LAMBDA e : IsCorrectedEntry(e) /\ e.owner = i)

\* the original dispatches, in order
OriginalEntries == SelectSeq(bridge_log, IsOriginalEntry)

(***************************************************************************)
(* C1: recovery depth is capped at one level.  Every error-resolution call *)
(* of the LLM answers the erroneous response of the original dispatch of a *)
(* validated command, and there is at most one such call per validated     *)
(* command; the corrected commands are dispatched with retry disabled: no  *)
(* recovery runs inside a recovery, and what the bridge receives besides   *)
(* the validated commands is each corrected command of those calls, once.  *)
(***************************************************************************)
C1_RecoveryDepthCapped ==
    /\ Len(frames) <= 1
    /\ \A k \in RecoveryCalls :
          /\ \E n \in Entries :
                /\ IsOriginalEntry(bridge_log[n])
                /\ to_json(bridge_log[n].command) = FailedOf(llm_log[k])
                /\ _is_error_response(bridge_log[n].response)
          /\ \A j \in RecoveryCalls :
                FailedOf(llm_log[j]) = FailedOf(llm_log[k]) => j = k
    /\ \A n \in Entries : IsCorrectedEntry(bridge_log[n]) =>
          /\ bridge_log[n].depth = 1
          /\ \E k \in RecoveryCallsFor(bridge_log[n].owner) :
                \E m \in 1..Len(llm_log[k].commands) :
                    llm_log[k].commands[m] = bridge_log[n].command
          /\ \A m \in Entries : bridge_log[m].command = bridge_log[n].command => m = n

\* a finished run in which a corrected command received an erroneous response
C1_Witness ==
    /\ Done
    /\ Cardinality(RecoveryCalls) = 1
    /\ \E n \in Entries :
          IsCorrectedEntry(bridge_log[n]) /\ _is_error_response(bridge_log[n].response)

(***************************************************************************)
(* C2: the fallback answer path is taken exactly when there is no valid    *)
(* command after extraction and expansion.  Then sender.answer is called   *)
(* once, with the original text; one command goes to the bridge, with the  *)
(* action answer_question, the returned answer as params.answer, a uuid    *)
(* and a timestamp; its response is returned as it is, erroneous or absent *)
(* as it may be, and nothing else is attempted.  With a valid command,     *)
(* sender.answer is not called and no synthetic command is sent.           *)
(***************************************************************************)
C2_FallbackExactlyWhenNoCommand ==
    /\ AnswerCalls # {} =>
          /\ result.commands = <<>>
          /\ Cardinality(AnswerCalls) = 1
          /\ \A k \in AnswerCalls : llm_log[k].arg = text
    /\ pc \in {"dispatch", "recover"} => result.commands # <<>>
    /\ (pc \in {"fallback_send", "done"} /\ result.commands = <<>>) => AnswerCalls # {}
    /\ (Done /\ result.commands = <<>>) =>
          /\ Len(bridge_log) = 1
          /\ Len(llm_log) = 2
          /\ LET sent == bridge_log[1].command
                 call == llm_log[CHOOSE k \in AnswerCalls : TRUE]
             IN /\ sent.action = Str("answer_question")
                /\ ~call.outcome.raised => sent.params["answer"] = call.outcome.value
                /\ Truthy(sent.uuid)
                /\ Truthy(sent.timestamp)
                /\ returned = Ok(bridge_log[1].response)
    /\ result.commands # <<>> =>
          /\ AnswerCalls = {}
          /\ \A n \in Entries : ~IsFallbackEntry(bridge_log[n])

\* a finished run of the fallback path: the answer came back, and the response to the
\* synthetic command was an error, returned as it is
C2_Witness ==
    /\ Done
    /\ result.commands = <<>>
    /\ \E k \in AnswerCalls : ~llm_log[k].outcome.raised
    /\ Len(bridge_log) = 1
    /\ bridge_log[1].response # None
    /\ _is_error_response(bridge_log[1].response)
    /\ returned = Ok(bridge_log[1].response)

(***************************************************************************)
(* C3: a validated command whose original dispatch returned an erroneous   *)
(* response is answered by the error-resolution call of the LLM, and when  *)
(* that call returns valid corrected commands, each is dispatched once, in *)
(* order, after the failed command, and their responses are the failed     *)
(* command's contribution to the result.  Stated of a finished run: every  *)
(* erroneous original dispatch has its error-resolution call, and the      *)
(* corrected commands of that call are what the bridge received next.      *)
(***************************************************************************)
C3_Counterexample ==
    Done =>
        \A n \in Entries :
            (IsOriginalEntry(bridge_log[n]) /\ _is_error_response(bridge_log[n].response))
            => /\ RecoveryCallsFor(bridge_log[n].owner) # {}
               /\ \A k \in RecoveryCallsFor(bridge_log[n].owner) :
                     LET corrected == llm_log[k].commands
                         sent == CorrectedEntries(bridge_log[n].owner)
                     IN /\ Len(sent) = Len(corrected)
                        /\ \A m \in 1..Len(sent) : sent[m].command = corrected[m]
                        /\ \A m \in 1..Len(corrected) :
                              bridge_log[n + m].command = corrected[m]

(***************************************************************************)
(* C4: when extraction yields exactly one valid command and the text holds *)
(* a compound marker, the LLM is asked for a multi-step plan through       *)
(* complete_custom; a plan of at least two valid commands replaces the     *)
(* single command and is what is dispatched, a smaller one leaves the      *)
(* single command in place.                                                *)
(***************************************************************************)
C4_Counterexample ==
    (pc \notin {"start", "expand", "raised"}
     /\ Len(extracted.commands) = 1
     /\ _looks_multi_action(text))
    => /\ \E k \in Calls : IsMultistepCall(llm_log[k])
       /\ \A k \in Calls : IsMultistepCall(llm_log[k]) =>
             result.commands = IF Len(llm_log[k].commands) >= 2
                               THEN llm_log[k].commands
                               ELSE extracted.commands

(***************************************************************************)
(* C9: process_text never raises for "no usable command".  In every run in *)
(* which the first call of the LLM, sender.send, returned a text, whatever *)
(* the text, process_text does not raise, and a run that ends without a    *)
(* valid command has dispatched the synthetic answer_question command.     *)
(***************************************************************************)
C9_Counterexample ==
    (Len(llm_log) >= 1 /\ ~llm_log[1].outcome.raised)
    => /\ pc # "raised"
       /\ (Done /\ result.commands = <<>>) =>
             \E n \in Entries :
                 /\ IsFallbackEntry(bridge_log[n])
                 /\ bridge_log[n].command.action = Str("answer_question")

(***************************************************************************)
(* C10: when sender.answer raises in the fallback step, process_text does  *)
(* not raise: the synthetic answer_question command carries the fixed      *)
(* apology string as params.answer, goes to the bridge exactly once, and   *)
(* its response is what process_text returns.                              *)
(***************************************************************************)
C10_AnswerFailureGivesApology ==
    \A k \in AnswerCalls : llm_log[k].outcome.raised =>
        /\ pc \in {"fallback_send", "done"}
        /\ fallback.action = Str("answer_question")
        /\ fallback.params["answer"] = ApologyText
        /\ Truthy(fallback.uuid)
        /\ Len(bridge_log) = IF Done THEN 1 ELSE 0
        /\ Done => /\ bridge_log[1].command = fallback
                   /\ returned = Ok(bridge_log[1].response)

\* a finished run in which sender.answer raised and the apology went to the bridge
C10_Witness ==
    /\ Done
    /\ \E k \in AnswerCalls : llm_log[k].outcome.raised
    /\ Len(bridge_log) = 1
    /\ bridge_log[1].command.params["answer"] = ApologyText
    /\ returned = Ok(bridge_log[1].response)

\* the original dispatch of validated command number i
OriginalEntry(i) == OriginalEntries[i]

\* the responses the bridge gave to the corrected commands of validated command i
CorrectedResponses(i) ==
    LET answered == SelectSeq(CorrectedEntries(i), LAMBDA e : e.response # None)
    IN [m \in 1..Len(answered) |-> answered[m].response]

\* the recovery of validated command number i gave nothing usable
Exhausted(i) ==
    \A k \in RecoveryCallsFor(i) :
        \/ llm_log[k].outcome.raised
        \/ llm_log[k].commands = <<>>
        \/ CorrectedResponses(i) = <<>>

(***************************************************************************)
(* C5: recovery exhaustion returns the original error unchanged.  When the *)
(* error-resolution call of the LLM throws, its reply does not parse, it   *)
(* yields no valid corrected command, or every corrected dispatch returns  *)
(* no response, what the failed command contributes to the result is its   *)
(* original erroneous response (nothing when that response was absent);    *)
(* process_text does not raise and goes on with the next command.          *)
(***************************************************************************)
C5_ExhaustionReturnsOriginalError ==
    /\ \A i \in 1..Len(contributions) :
          (_is_error_response(OriginalEntry(i).response) /\ Exhausted(i))
          => contributions[i] = OriginalEntry(i).response
    /\ bridge_log # <<>> => pc # "raised"
    /\ Len(contributions) = idx
    /\ (Done /\ result.commands # <<>>) => Len(contributions) = Len(result.commands)

\* a finished run of two commands: the bridge refused the first, the LLM gave a
\* corrected command, the bridge gave no response to it, and the second went on
C5_Witness ==
    /\ Done
    /\ Len(result.commands) = 2
    /\ OriginalEntry(1).response # None
    /\ _is_error_response(OriginalEntry(1).response)
    /\ \E k \in RecoveryCallsFor(1) : llm_log[k].commands # <<>>
    /\ Len(CorrectedEntries(1)) > 0
    /\ CorrectedResponses(1) = <<>>
    /\ contributions[1] = OriginalEntry(1).response
    /\ Len(OriginalEntries) = 2

\* what validated command number i leaves in the result: the responses to its
\* corrected commands when there are some, its own response otherwise
Kept(i) ==
    IF CorrectedResponses(i) # <<>> THEN CorrectedResponses(i)
    ELSE IF OriginalEntry(i).response # None THEN <<OriginalEntry(i).response>>
    ELSE <<>>

RECURSIVE KeptUpTo(_)
KeptUpTo(i) == IF i = 0 THEN <<>> ELSE KeptUpTo(i - 1) \o Kept(i)

(***************************************************************************)
(* C6: aggregation shape.  After the dispatch of all validated commands    *)
(* process_text returns None when no response was collected, the response  *)
(* itself, not a list, when exactly one was collected, and the whole list  *)
(* when two or more were; the responses of a recovery are elements of that *)
(* list, not a list nested in it.                                          *)
(***************************************************************************)
C6_AggregationShape ==
    (Done /\ result.commands # <<>>) =>
        LET kept == KeptUpTo(Len(result.commands))
        IN /\ \A m \in 1..Len(kept) : IsDict(kept[m])
           /\ Len(kept) = 0 => returned = Ok(None)
           /\ Len(kept) = 1 => returned = Ok(kept[1])
           /\ Len(kept) >= 2 => returned = Ok(JList(kept))
           /\ responses = kept

\* a finished run whose only collected response is that of a corrected command
C6_Witness ==
    /\ Done
    /\ Len(result.commands) = 1
    /\ Len(CorrectedResponses(1)) = 1
    /\ returned = Ok(CorrectedResponses(1)[1])
    /\ IsDict(returned.value)

\* the validated command a response of the bridge is attributable to
OwnerOf(response) ==
    bridge_log[CHOOSE n \in Entries : bridge_log[n].response = response].owner

(***************************************************************************)
(* C7: ordering.  For validated commands c_i before c_j the bridge         *)
(* receives c_i and all the corrected commands of c_i before c_j, and in   *)
(* what is returned every response attributable to c_i precedes every      *)
(* response attributable to c_j.                                           *)
(***************************************************************************)
C7_Ordering ==
    /\ \A n, m \in Entries : n < m => bridge_log[n].owner <= bridge_log[m].owner
    /\ \A n, m \in Entries :
          (n < m /\ bridge_log[n].owner = bridge_log[m].owner)
          => IsCorrectedEntry(bridge_log[m])
    /\ \A i \in 1..Len(OriginalEntries) : OriginalEntry(i).command = result.commands[i]
    /\ \A n, m \in 1..Len(responses) :
          n < m => OwnerOf(responses[n]) <= OwnerOf(responses[m])
    /\ (Done /\ Len(responses) >= 2) => returned = Ok(JList(responses))

\* a finished run of two commands, the first one recovered, with a response to the
\* corrected command of the first and a response to the second in the returned list
C7_Witness ==
    /\ Done
    /\ Len(result.commands) = 2
    /\ Len(CorrectedEntries(1)) > 0
    /\ IsList(returned.value)
    /\ Len(returned.value.l) = 2
    /\ OwnerOf(returned.value.l[1]) = 1
    /\ OwnerOf(returned.value.l[2]) = 2

(***************************************************************************)
(* C8: sibling isolation in dispatch.  Every validated command goes to     *)
(* bridge.send_command exactly once as an original dispatch, whatever      *)
(* happened to the commands before it; none is skipped, and no command is  *)
(* dispatched twice.                                                       *)
(***************************************************************************)
C8_SiblingIsolation ==
    /\ \A n, m \in Entries : bridge_log[n].command = bridge_log[m].command => n = m
    /\ Len(OriginalEntries) <= Len(result.commands)
    /\ pc \in {"dispatch", "recover"} => Len(OriginalEntries) \in {idx, idx + 1}
    /\ (Done /\ result.commands # <<>>) =>
          /\ Len(OriginalEntries) = Len(result.commands)
          /\ \A i \in 1..Len(result.commands) :
                OriginalEntry(i).command = result.commands[i]

\* a finished run of two commands: the first had an absent response and a corrected
\* command that failed too, and the second was dispatched all the same
C8_Witness ==
    /\ Done
    /\ Len(result.commands) = 2
    /\ OriginalEntry(1).response = None
    /\ \E m \in 1..Len(CorrectedEntries(1)) :
          _is_error_response(CorrectedEntries(1)[m].response)
    /\ Len(OriginalEntries) = 2
    /\ OriginalEntry(2).command = result.commands[2]

SendCalls == {k \in Calls : llm_log[k].op = "send"}

(***************************************************************************)
(* C11: IntentExtractor.extract calls send exactly once per extraction and *)
(* adds no retry.  When send raises, the exception leaves extract and      *)
(* process_text as it is, and that run makes no other call of the LLM      *)
(* (answer, complete_custom) and no bridge dispatch.                       *)
(***************************************************************************)
C11_SendFailurePropagates ==
    /\ Cardinality(SendCalls) = IF pc = "start" THEN 0 ELSE 1
    /\ SendCalls \subseteq {1}
    /\ \A k \in SendCalls : llm_log[k].arg = text
    /\ \A k \in SendCalls : llm_log[k].outcome.raised =>
          /\ pc = "raised"
          /\ returned = llm_log[k].outcome
          /\ Len(llm_log) = 1
          /\ bridge_log = <<>>

\* a run in which send raised and process_text raised the same exception
C11_Witness ==
    /\ pc = "raised"
    /\ Len(llm_log) = 1
    /\ llm_log[1].op = "send"
    /\ llm_log[1].outcome = Raise("RuntimeError")
    /\ returned = Raise("RuntimeError")
    /\ bridge_log = <<>>

MultistepCalls == {k \in Calls : IsMultistepCall(llm_log[k])}

\* the replies to a hand-built prompt on which parsing, backfill or validation raises
RepliesThatRaise == {r \in CustomReplies : ParseBackfillValidate(r, 0).raised}

\* the expansion step was entered (lines 105-106) and something failed inside its try
ExpansionFailed ==
    /\ Len(extracted.commands) = 1
    /\ _looks_multi_action(text)
    /\ \/ MultistepCalls = {}
       \/ \E k \in MultistepCalls :
             \/ llm_log[k].outcome.raised
             \/ llm_log[k].outcome.value \in RepliesThatRaise

(***************************************************************************)
(* C12: expansion is best-effort and never fatal.  When anything fails in  *)
(* the expansion step (building the multi-step prompt, complete_custom     *)
(* throwing, a reply that does not parse, an exception in backfill or      *)
(* validation), process_text does not raise, the original single-command   *)
(* result is kept unchanged, and that original command is dispatched.      *)
(***************************************************************************)
C12_ExpansionBestEffort ==
    (extracted # NoResult /\ pc # "expand") =>
        /\ pc # "raised"
        /\ ExpansionFailed =>
              /\ result = extracted
              /\ Cardinality(MultistepCalls) <= 1
              /\ \A n \in Entries :
                    IsOriginalEntry(bridge_log[n]) =>
                        bridge_log[n].command = extracted.commands[1]
              /\ Done => Len(OriginalEntries) = 1

\* a finished run in which the reply to the multi-step prompt raised inside backfill
\* (an action that is a list) and the original command was dispatched
C12_Witness ==
    /\ Done
    /\ ExpansionFailed
    /\ \E k \in MultistepCalls :
          /\ ~llm_log[k].outcome.raised
          /\ ParseBackfillValidate(llm_log[k].outcome.value, 0) = Raise("TypeError")
    /\ Len(OriginalEntries) = 1
    /\ OriginalEntry(1).command = extracted.commands[1]

\* the timestamp string is one datetime.fromisoformat reads, a final Z standing for UTC
IsIso(timestamp) ==
    /\ IsStr(timestamp)
    /\ timestamp.s # <<>>
    /\ fromisoformat(IF timestamp.s[Len(timestamp.s)] = "Z"
                     THEN [i \in 1..Len(timestamp.s) |->
                              IF i = Len(timestamp.s) THEN "+00:00" ELSE timestamp.s[i]]
                     ELSE timestamp.s)

\* a raw command that is individually well formed
WellFormed(raw) ==
    /\ IsDict(raw)
    /\ ActionAllowed(Get(raw.o, "action"))
    /\ "params" \in DOMAIN raw.o => IsDict(raw.o["params"])
    /\ \A i \in 1..Len(RequiredFields(Get(raw.o, "action"))) :
          /\ "params" \in DOMAIN raw.o
          /\ RequiredFields(Get(raw.o, "action"))[i] \in DOMAIN raw.o["params"].o
    /\ IsStr(Get(raw.o, "uuid"))
    /\ Get(raw.o, "uuid").s # <<>>
    /\ IsIso(Get(raw.o, "timestamp"))

\* the Command a well-formed raw command stands for
AsCommand(raw) ==
    Command(raw.o["action"],
            IF "params" \in DOMAIN raw.o THEN raw.o["params"].o ELSE EmptyDict,
            raw.o["uuid"], raw.o["timestamp"])

\* the well-formed items of a list, in order, as Commands
WellFormedOf(items) ==
    LET kept == SelectSeq(items, WellFormed)
    IN [i \in 1..Len(kept) |-> AsCommand(kept[i])]

\* some issue points at item number i (one-based) of a list of count items
HasIssueAt(issues, count, i) ==
    \E k \in 1..Len(issues) :
        IF count > 1 THEN issues[k].base = "commands" /\ issues[k].idx = i - 1
        ELSE issues[k].base = "command"

(***************************************************************************)
(* C13: validator independence.  For a list of N raw commands of which K   *)
(* are individually well formed, validate_command returns those K          *)
(* commands, in input order, and each of the other N-K items contributes   *)
(* at least one issue; no valid command is dropped because a sibling, a    *)
(* non-object item included, was invalid.                                  *)
(***************************************************************************)
C13_Counterexample ==
    (pc = "validated" /\ IsList(payload)) =>
        /\ ~validation.raised
        /\ validation.value.commands = WellFormedOf(payload.l)
        /\ \A i \in 1..Len(payload.l) :
              ~WellFormed(payload.l[i]) =>
                  HasIssueAt(validation.value.issues, Len(payload.l), i)

(***************************************************************************)
(* C14: validate_command is total.  For every JSON value, scalar, list or  *)
(* object, with fields of any JSON type, an action that is an array or an  *)
(* object included, it returns a ValidationResult and never raises; every  *)
(* structural or schema problem is a ValidationIssue of the result.        *)
(***************************************************************************)
C14_Counterexample ==
    pc \in {"validated", "extracted"} =>
        /\ ~validation.raised
        /\ validation.value.is_valid =
              (validation.value.commands # <<>> /\ validation.value.issues = <<>>)

\* a Command that is valid as a whole
WellFormedCommand(command) ==
    /\ ActionAllowed(command.action)
    /\ \A i \in 1..Len(RequiredFields(command.action)) :
          RequiredFields(command.action)[i] \in DOMAIN command.params
    /\ IsStr(command.uuid)
    /\ command.uuid.s # <<>>
    /\ IsIso(command.timestamp)

(***************************************************************************)
(* C15: no partially-valid command is in circulation.  Every command that  *)
(* reaches bridge.send_command, original, expanded, corrected or the       *)
(* synthetic fallback, has an action of the allowed-action table, params   *)
(* with every parameter that action requires, a non-empty string uuid and  *)
(* a string timestamp that parses as ISO-8601.                             *)
(***************************************************************************)
C15_OnlyValidCommands ==
    /\ \A n \in Entries : WellFormedCommand(bridge_log[n].command)
    /\ \A i \in 1..Len(result.commands) : WellFormedCommand(result.commands[i])
    /\ \A d \in 1..Len(frames) :
          \A i \in 1..Len(frames[d].commands) : WellFormedCommand(frames[d].commands[i])
    /\ pc \in {"fallback_send", "done"} /\ result.commands = <<>> =>
          WellFormedCommand(fallback)

\* a finished run in which the LLM wrote one command with a timestamp that is no date
\* and one that is valid, and only the valid one went to the bridge
C15_Witness ==
    /\ Done
    /\ \E k \in 1..Len(extracted.issues) :
          extracted.issues[k].message = "Timestamp must be ISO 8601"
    /\ Len(bridge_log) >= 1
    /\ bridge_log[1].command.uuid = JStr(<<"llm", "chrome">>)
    /\ \A n \in Entries : WellFormedCommand(bridge_log[n].command)

\* payload is one raw command object: an object without the key `commands`
IsSingle(value) == IsDict(value) /\ "commands" \notin DOMAIN value.o

(***************************************************************************)
(* C16: shape normalization is uniform.  For a raw command object c with   *)
(* no `commands` key, validating c alone, the one-element list [c] and the *)
(* wrapper {commands: [c]} yield the same commands and the same issues,    *)
(* fields and messages alike.                                              *)
(***************************************************************************)
C16_ShapesAgree ==
    (pc = "validated" /\ IsSingle(payload)) =>
        /\ validation = validate_command(JList(<<payload>>))
        /\ validation = validate_command(JObj([commands |-> JList(<<payload>>)]))

\* a command object that validated to one command and one that validated to issues
\* only, each as it would in a list or under `commands`
C16_Witness ==
    /\ pc = "validated"
    /\ IsSingle(payload)
    /\ ~validation.raised
    /\ \/ Len(validation.value.commands) = 1 /\ validation.value.issues = <<>>
       \/ validation.value.commands = <<>> /\ Len(validation.value.issues) >= 2
    /\ validation = validate_command(JObj([commands |-> JList(<<payload>>)]))

(***************************************************************************)
(* C17: a structural failure produces zero commands.  When the payload is  *)
(* neither an object nor a list, or an object whose `commands` value is    *)
(* present but no list, whatever that value, a well-formed command object  *)
(* included, validate_command records a structural issue, returns no       *)
(* Command, and is_valid is false.                                         *)
(***************************************************************************)
C17_Counterexample ==
    (/\ pc = "validated"
     /\ \/ ~IsDict(payload) /\ ~IsList(payload)
        \/ /\ IsDict(payload)
           /\ "commands" \in DOMAIN payload.o
           /\ ~IsList(payload.o["commands"]))
    => /\ ~validation.raised
       /\ \E k \in 1..Len(validation.value.issues) :
             validation.value.issues[k].base \in {"root", "commands"}
       /\ validation.value.commands = <<>>
       /\ ~validation.value.is_valid

\* the uuid is absent (null or empty), no string, or a placeholder
PlaceholderUuid(uuid) ==
    ~IsStr(uuid) \/ uuid.s = <<>> \/ uuid.s[1] = "<"

\* the timestamp is absent (null or empty), no string, or on the example date
PlaceholderTimestamp(timestamp) ==
    ~IsStr(timestamp) \/ timestamp.s = <<>> \/ timestamp.s[1] = "2024-01-01"

\* the one command object backfilled, before and after
Before == payload.o
After == backfilled.value.value.o

(***************************************************************************)
(* C18: backfill preserves well-formed bookkeeping fields.  The backfiller *)
(* keeps an existing uuid unless it is absent, not a string, or starts     *)
(* with the placeholder marker "<", and keeps an existing timestamp unless *)
(* it is absent, not a string, or on the known example date; so a command  *)
(* with a non-placeholder uuid and a well-formed ISO-8601 timestamp other  *)
(* than that date leaves backfill with both fields unchanged.              *)
(***************************************************************************)
C18_BookkeepingKept ==
    (pc = "backfilled" /\ IsSingle(payload) /\ ~backfilled.raised) =>
        /\ After["uuid"] = IF PlaceholderUuid(Get(Before, "uuid"))
                           THEN uuid4(uuids) ELSE Before["uuid"]
        /\ After["timestamp"] = IF PlaceholderTimestamp(Get(Before, "timestamp"))
                                THEN utcnow_isoformat_Z ELSE Before["timestamp"]
        /\ (/\ ~PlaceholderUuid(Get(Before, "uuid"))
            /\ IsIso(Get(Before, "timestamp"))
            /\ Get(Before, "timestamp").s[1] # "2024-01-01")
           => /\ After["uuid"] = Before["uuid"]
              /\ After["timestamp"] = Before["timestamp"]
              /\ uuids = 0

\* a command left backfill with the uuid and the ISO timestamp it came with
C18_Witness ==
    /\ pc = "backfilled"
    /\ IsSingle(payload)
    /\ ~backfilled.raised
    /\ ~PlaceholderUuid(Get(Before, "uuid"))
    /\ IsIso(Get(Before, "timestamp"))
    /\ ~PlaceholderTimestamp(Get(Before, "timestamp"))
    /\ After["uuid"] = Before["uuid"]
    /\ After["timestamp"] = Before["timestamp"]

\* the validator reported the timestamp of the one command
HasTimestampIssue ==
    \E k \in 1..Len(validation.value.issues) : validation.value.issues[k].sub = "timestamp"

(***************************************************************************)
(* C19: along the extraction path (backfill, then validation), a raw       *)
(* command whose timestamp is absent, malformed (a string that is not      *)
(* ISO-8601) or the placeholder date ends up with a freshly generated      *)
(* current-time ISO-8601 timestamp, so a malformed timestamp never causes  *)
(* that command to be rejected by the validator.                           *)
(***************************************************************************)
C19_Counterexample ==
    (/\ pc = "extracted"
     /\ IsSingle(payload)
     /\ \/ ~IsIso(Get(Before, "timestamp"))
        \/ PlaceholderTimestamp(Get(Before, "timestamp")))
    => /\ After["timestamp"] = utcnow_isoformat_Z
       /\ ~validation.raised
       /\ ~HasTimestampIssue

\* the params of the one command before backfill: empty when missing or no object
ParamsBefore ==
    IF IsDict(Get(Before, "params")) THEN Before["params"].o ELSE EmptyDict

\* the parameter names required by the declared action
Required ==
    {RequiredFields(Get(Before, "action"))[i] :
        i \in 1..Len(RequiredFields(Get(Before, "action")))}

\* the validator reported a required field of the one command as missing
HasMissingFieldIssue ==
    \E k \in 1..Len(validation.value.issues) :
        validation.value.issues[k].message = "Missing required field"

Submitted(value) ==
    IF IsList(value) THEN value.l
    ELSE IF IsSingle(value) THEN <<value>>
    ELSE IF IsDict(value)
    THEN IF IsList(value.o["commands"]) THEN value.o["commands"].l
         ELSE <<value.o["commands"]>>
    ELSE <<>>

\* the issues about the shape of the payload, which point at no command
StructuralMessages ==
    {"Payload must be an object or list", "Commands must be a list",
     "No commands provided"}

\* the per-command issues of the validation, in order
CommandIssues ==
    SelectSeq(validation.value.issues, LAMBDA issue : issue.message \notin StructuralMessages)

(***************************************************************************)
(* C21: field-path precision.  Every per-command issue of validate_command *)
(* has the path `command` or `command.<field>` when exactly one raw        *)
(* command was submitted, and `commands[i]` or `commands[i].<field>` when  *)
(* two or more were, with i the zero-based position of the offending entry *)
(* in the raw input list, not in the list of valid commands; and every     *)
(* offending entry is pointed at.                                          *)
(***************************************************************************)
C21_FieldPaths ==
    (pc = "validated" /\ ~validation.raised) =>
        /\ \A k \in 1..Len(CommandIssues) :
              IF Len(Submitted(payload)) = 1
              THEN /\ CommandIssues[k].base = "command"
                   /\ CommandIssues[k].idx = NoIndex
                   /\ ~WellFormed(Submitted(payload)[1])
              ELSE /\ CommandIssues[k].base = "commands"
                   /\ CommandIssues[k].idx \in 0..(Len(Submitted(payload)) - 1)
                   /\ ~WellFormed(Submitted(payload)[CommandIssues[k].idx + 1])
        /\ \A i \in 1..Len(Submitted(payload)) :
              ~WellFormed(Submitted(payload)[i]) =>
                  \E k \in 1..Len(CommandIssues) :
                      CommandIssues[k].idx =
                          IF Len(Submitted(payload)) = 1 THEN NoIndex ELSE i - 1
        /\ \A k \in 1..Len(CommandIssues) :
              IF IsDict(Submitted(payload)[IF CommandIssues[k].idx = NoIndex THEN 1
                                           ELSE CommandIssues[k].idx + 1])
              THEN CommandIssues[k].sub # ""
              ELSE CommandIssues[k].sub = ""

\* a list whose first item is valid and whose last is not: the issue carries the
\* position of the last item in the input
C21_Witness ==
    /\ pc = "validated"
    /\ ~validation.raised
    /\ IsList(payload)
    /\ Len(payload.l) = MaxCmds
    /\ WellFormed(payload.l[1])
    /\ ~WellFormed(payload.l[MaxCmds])
    /\ \E k \in 1..Len(CommandIssues) : CommandIssues[k].idx = MaxCmds - 1
    /\ Len(validation.value.commands) >= 1

\* parse_json_safely was applied to raw_response
Parsed == parsed # NotCalled

\* the text is empty or whitespace only
Blank(txt) == \A i \in 1..Len(txt) : txt[i] = Ws

(***************************************************************************)
(* C22: empty rejection.  parse_json_safely applied to an empty or         *)
(* whitespace-only string always fails with the error that identifies the  *)
(* response as empty, never with the generic JSON-syntax error, and no     *)
(* other text fails with that error.                                       *)
(***************************************************************************)
C22_EmptyRejected ==
    Parsed =>
        (Blank(raw_response)
         <=> parsed = Raise("ValueError: LLM returned an empty response"))

\* a whitespace-only completion was rejected as empty
C22_Witness ==
    /\ Parsed
    /\ raw_response = <<Ws, Ws>>
    /\ parsed.raised
    /\ parsed.exc = "ValueError: LLM returned an empty response"

(***************************************************************************)
(* C23: the result of the response parser is always a JSON object or a     *)
(* JSON array: parse_json_safely returns an object or an array or fails;   *)
(* it never returns a scalar (number, string, boolean, null), also when    *)
(* the whole text is itself a valid JSON scalar.                           *)
(***************************************************************************)
C23_Counterexample ==
    Parsed => (parsed.raised \/ parsed.value.t \in {"obj", "list"})

\* the first candidate that parses, or the generic error
FirstParsed(candidates) ==
    IF \E i \in 1..Len(candidates) : ~candidates[i].raised
    THEN candidates[CHOOSE i \in 1..Len(candidates) :
                        /\ ~candidates[i].raised
                        /\ \A j \in 1..(i - 1) : candidates[j].raised]
    ELSE Raise("ValueError: LLM did not return valid JSON")

\* the texts that wrap the serialisation of v in a fenced block
IsWrapped(txt, v) ==
    \E p \in 1..Len(txt), j \in 1..Len(txt) :
        /\ p < j /\ j < Len(txt)
        /\ txt[p] = Fence /\ txt[j] = J(v) /\ txt[Len(txt)] = Fence
        /\ \A i \in 1..(p - 1) : txt[i] \in {Prose, Ws}
        /\ \A i \in (p + 1)..(j - 1) : txt[i] = Ws \/ (i = p + 1 /\ txt[i] = Tag)
        /\ \A i \in (j + 1)..(Len(txt) - 1) : txt[i] = Ws

(***************************************************************************)
(* C24: parser tolerance.  For a text that wraps a valid JSON object in a  *)
(* fenced code block, with or without the language tag and optionally      *)
(* after prose, parse_json_safely returns exactly the object; and when the *)
(* text as a whole is no JSON, the candidates are tried in the order       *)
(* fenced block, object-shaped substring, array-shaped substring, and the  *)
(* first that parses is returned.                                          *)
(***************************************************************************)
C24_ParserTolerance ==
    Parsed =>
        /\ \A v \in {w \in ParserValues : w.t = "obj"} :
              IsWrapped(raw_response, v) => parsed = Ok(v)
        /\ (~Blank(raw_response) /\ _attempt_parse(Strip(raw_response)).raised) =>
              parsed = FirstParsed(FencedCandidate(Strip(raw_response))
                                   \o GreedyCandidate(Strip(raw_response), "obj")
                                   \o GreedyCandidate(Strip(raw_response), "list"))

\* an object that holds an array, in a tagged fenced block after prose, came back
\* whole, although the array pattern matches inside it
C24_Witness ==
    /\ Parsed
    /\ raw_response = <<Prose, Ws, Fence, Tag, Ws,
                        J(JObj([commands |-> JList(<<RawCommand("paint")>>)])), Ws, Fence>>
    /\ parsed = Ok(JObj([commands |-> JList(<<RawCommand("paint")>>)]))
    /\ ~GreedyCandidate(raw_response, "list")[1].raised

\* the names send_command is to try for http_command, as the comment of lines 31-32 says
ExpectedNames ==
    LET application == Get(http_command.params, "application")
    IN IF IsStr(application) /\ application.s # <<>> /\ application.s[1] = "known_"
       THEN <<application, JStr(SubSeq(application.s, 2, Len(application.s)))>>
       ELSE <<application>>

\* request number k gave no response: an exception, a status that is not 200, a body
\* that is no JSON or the JSON null
NoResponse(k) ==
    \/ http_log[k].outcome.raised
    \/ http_log[k].outcome.value.status # 200
    \/ http_log[k].outcome.value.body.raised
    \/ http_log[k].outcome.value.body.value = None

(***************************************************************************)
(* C25: HttpBridge.send_command signals a transport-level failure by       *)
(* returning None and never by raising.  It tries the command's            *)
(* application name and, only when that name starts with known_, the name  *)
(* with the prefix stripped, in that order and at most once each; it       *)
(* returns the first response that is not None, and None when every        *)
(* attempt failed (disconnect, URL or OS error, non-200 status).           *)
(***************************************************************************)
C25_BridgeNeverRaises ==
    /\ Len(http_log) <= Len(ExpectedNames)
    /\ \A k \in 1..Len(http_log) :
          /\ http_log[k].application = ExpectedNames[k]
          /\ k < Len(http_log) => NoResponse(k)
    /\ pc = "sent" =>
          /\ ~http_returned.raised
          /\ IF http_returned.value = None
             THEN /\ Len(http_log) = Len(ExpectedNames)
                  /\ \A k \in 1..Len(http_log) : NoResponse(k)
             ELSE /\ ~NoResponse(Len(http_log))
                  /\ http_returned.value = http_log[Len(http_log)].outcome.value.body.value

\* a known_ name failed with status 500 and the stripped name was answered
C25_Witness ==
    /\ pc = "sent"
    /\ Len(http_log) = 2
    /\ http_log[1].application = JStr(<<"known_", "notepad">>)
    /\ ~http_log[1].outcome.raised
    /\ http_log[1].outcome.value.status = 500
    /\ http_log[2].application = Str("notepad")
    /\ http_returned = Ok(HttpOk(http_command))

\* the responses in the value process_text returned
ReturnedResponses ==
    IF returned.value = None THEN {}
    ELSE IF IsList(returned.value) THEN {returned.value.l[i] : i \in 1..Len(returned.value.l)}
    ELSE {returned.value}

(***************************************************************************)
(* C26: when recovery dispatches corrected commands, only the non-failed   *)
(* responses of those dispatches are collected: a response to a corrected  *)
(* command that is itself erroneous (absent, a status of failure, or a     *)
(* non-empty error field) never appears among the recovered responses      *)
(* process_text returns.                                                   *)
(***************************************************************************)
C26_Counterexample ==
    Done =>
        \A n \in Entries :
            (IsCorrectedEntry(bridge_log[n]) /\ _is_error_response(bridge_log[n].response))
            => bridge_log[n].response \notin ReturnedResponses

\* a dispatch response is erroneous: absent, or structured with a status of error or a
\* non-empty error field
Erroneous(response) ==
    \/ response = None
    \/ /\ IsDict(response)
       /\ \/ /\ "status" \in DOMAIN response.o
             /\ response.o["status"] = Str("error")
          \/ /\ "error" \in DOMAIN response.o
             /\ response.o["error"] \notin {JNull, JStr(<<>>)}

\* the error-recovery sub-protocol was invoked for the command of dispatch number n:
\* its call of _attempt_recovery is running, or has asked the LLM for a correction
RecoveryInvoked(n) ==
    \/ \E d \in 1..Len(frames) : frames[d].failed = bridge_log[n].command
    \/ \E k \in RecoveryCalls : FailedOf(llm_log[k]) = to_json(bridge_log[n].command)

(***************************************************************************)
(* C27: recovery trigger.  On an original dispatch (retry allowed) the     *)
(* error-recovery sub-protocol is invoked if and only if the bridge        *)
(* response is absent (None), or is a structured response whose status is  *)
(* error or whose error field is non-empty; an absent response triggers    *)
(* recovery exactly like an explicit error response, and a structured      *)
(* response with another status and an empty or missing error field never  *)
(* triggers it.                                                            *)
(***************************************************************************)
C27_RecoveryTrigger ==
    "build_error_resolution_prompt" \in prompts_module =>
        \A n \in Entries :
            IsOriginalEntry(bridge_log[n]) =>
                (RecoveryInvoked(n) <=> Erroneous(bridge_log[n].response))

\* a finished run of two commands: the first got no response and was recovered, the
\* second got a response with an empty error field and was not
C27_Witness ==
    /\ Done
    /\ Len(OriginalEntries) = 2
    /\ OriginalEntry(1).response = None
    /\ Cardinality(RecoveryCallsFor(1)) = 1
    /\ OriginalEntry(2).response # None
    /\ Get(OriginalEntry(2).response.o, "error") = JStr(<<>>)
    /\ RecoveryCallsFor(2) = {}

\* the text holds a compound marker: the word "i" between two words, in either case,
\* a word of sequence, or a comma
CompoundMarker(txt) ==
    \/ \E i \in 2..(Len(txt) - 1) : txt[i] \in {"i", "I"}
    \/ \E i \in 1..Len(txt) :
          txt[i] \in {"zatem", "potom", "posle", "snachala", "dalee", ","}

(***************************************************************************)
(* C28: expansion runs at most once per invocation and only before any     *)
(* bridge dispatch.  The multi-step call of the LLM is made only when      *)
(* extraction produced exactly one valid command and the text holds a      *)
(* compound marker, never when it produced none or two or more; and no     *)
(* step of the recovery sub-protocol or of the fallback path makes it:     *)
(* when it is made, the only call made before it is the send of the        *)
(* extraction, and nothing has been dispatched.                            *)
(***************************************************************************)
C28_ExpansionOnceBeforeDispatch ==
    [][MultistepCalls' # MultistepCalls =>
          /\ MultistepCalls = {}
          /\ Cardinality(MultistepCalls') = 1
          /\ Len(extracted.commands) = 1
          /\ CompoundMarker(text)
          /\ Len(llm_log) = 1
          /\ llm_log[1].op = "send"
          /\ bridge_log = <<>>
          /\ bridge_log' = <<>>
          /\ frames = <<>>]_vars

\* a finished run in which the plan of the multi-step call was dispatched and a
\* command of the plan was recovered, with no second multi-step call
C28_Witness ==
    /\ Done
    /\ Cardinality(MultistepCalls) = 1
    /\ Len(extracted.commands) = 1
    /\ Len(result.commands) = 2
    /\ RecoveryCalls # {}
    /\ \E n \in Entries : IsCorrectedEntry(bridge_log[n])

\* the responses bridge.send_command returned during the invocation
BridgeReturned == {bridge_log[n].response : n \in Entries}

(***************************************************************************)
(* C29: with bridge responses that are None or structured and no call      *)
(* raising out of process_text, process_text returns None if and only if   *)
(* every bridge.send_command call of the invocation returned None; so      *)
(* whenever some bridge call returned a structured response the result is  *)
(* not None, and every response in the result was returned by a bridge     *)
(* call of this invocation.                                                *)
(***************************************************************************)
C29_NoneIffAllNone ==
    Done =>
        /\ ~returned.raised
        /\ BridgeReturned # {}
        /\ returned.value = None <=> BridgeReturned = {None}
        /\ ReturnedResponses \subseteq BridgeReturned \ {None}

\* a finished run that returned the one structured response of three dispatches: the
\* validated command and one corrected command got no response
C29_Witness ==
    /\ Done
    /\ Len(bridge_log) = 3
    /\ bridge_log[1].response = None
    /\ IsCorrectedEntry(bridge_log[2]) /\ bridge_log[2].response = None
    /\ IsCorrectedEntry(bridge_log[3]) /\ bridge_log[3].response # None
    /\ returned = Ok(bridge_log[3].response)

\* process_text has returned or raised
Terminated == pc \in {"done", "raised"}

\* the corrected commands the error-resolution calls up to call number k returned
RECURSIVE CorrectedUpTo(_)
CorrectedUpTo(k) ==
    IF k = 0 THEN 0
    ELSE CorrectedUpTo(k - 1)
         + (IF IsRecoveryCall(llm_log[k]) THEN Len(llm_log[k].commands) ELSE 0)

\* the work of the invocation so far is within its bounds
WorkBounded ==
    /\ Cardinality({k \in Calls : llm_log[k].op = "send"}) = 1
    /\ Cardinality(MultistepCalls) <= 1
    /\ Cardinality(AnswerCalls) <= 1
    /\ \A i \in 1..Len(result.commands) : Cardinality(RecoveryCallsFor(i)) <= 1
    /\ Cardinality(RecoveryCalls) <= Len(result.commands)
    /\ Len(bridge_log) <= Len(result.commands) + CorrectedUpTo(Len(llm_log))
                          + Cardinality(AnswerCalls)

\* a returned invocation dispatched each validated and each corrected command once, or
\* the one fallback command
DispatchesCounted ==
    Len(bridge_log) = IF result.commands = <<>> THEN 1
                      ELSE Len(result.commands) + CorrectedUpTo(Len(llm_log))

(***************************************************************************)
(* C30: every invocation of process_text terminates, with a result or a    *)
(* propagated exception, provided each capability call returns or throws;  *)
(* and its work is bounded: exactly one send call, at most one multi-step  *)
(* call, at most one answer call, at most one error-resolution call per    *)
(* validated command, and as many bridge dispatches as there are validated *)
(* commands and corrected commands returned by the recoveries, or exactly  *)
(* one dispatch on the fallback path.                                      *)
(***************************************************************************)
C30_TerminatesBounded ==
    /\ <>Terminated
    /\ [](pc # "start" => WorkBounded)
    /\ [](Done => DispatchesCounted)

\* a returned invocation with a multi-step call, two validated commands, two
\* error-resolution calls and corrected commands dispatched
C30_Witness ==
    /\ Done
    /\ Cardinality(MultistepCalls) = 1
    /\ Len(result.commands) = 2
    /\ Cardinality(RecoveryCalls) = 2
    /\ CorrectedUpTo(Len(llm_log)) >= 2
    /\ Len(bridge_log) = 2 + CorrectedUpTo(Len(llm_log))
====
